---- MODULE Spec2Model ----
(***************************************************************************)
(* Model of cmd/sst/progress.go: the reducer `progress` that consumes a    *)
(* stream of stack events, keeps timing / dedupe / errors / outputs state, *)
(* prints status lines through printProgress and returns the verdict.      *)
(*                                                                         *)
(* Strings are sequences of one-character strings, so that concatenation,  *)
(* strings.Split, strings.TrimSpace and the regular expressions of         *)
(* formatURN are computed character by character as the code does.         *)
(***************************************************************************)
EXTENDS Integers, Sequences, FiniteSets, TLC

\* ------------------------------------------------------------------ bounds
\* Longest event stream handed to progress.
MaxEvents == 3
\* Clock ticks per millisecond (the clock of the model counts in fractions
\* of the rounding unit of line 218).
Millisecond == 4
\* Width in bits of a signed time.Duration in the model.
DurationBits == 6

\* ------------------------------------------------------- string primitives
NL == "\n"

Space == {" ", "\n", "\t", "\r"}

\* Smallest i with sep occurring in s at position i, 0 when there is none.
Index(s, sep) ==
    LET hits == {i \in 1..(Len(s) - Len(sep) + 1) :
                    SubSeq(s, i, i + Len(sep) - 1) = sep}
    IN IF hits = {} THEN 0 ELSE CHOOSE i \in hits : \A j \in hits : i <= j

Drop(s, n) == SubSeq(s, n + 1, Len(s))

RECURSIVE Split(_, _)
\* strings.Split(s, sep) for a non-empty sep.
Split(s, sep) ==
    LET i == Index(s, sep)
    IN IF i = 0 THEN <<s>>
       ELSE <<SubSeq(s, 1, i - 1)>> \o Split(Drop(s, i + Len(sep) - 1), sep)

RECURSIVE TrimLeft(_)
TrimLeft(s) ==
    IF s # <<>> /\ s[1] \in Space THEN TrimLeft(Tail(s)) ELSE s

RECURSIVE TrimRight(_)
TrimRight(s) ==
    IF s # <<>> /\ s[Len(s)] \in Space
    THEN TrimRight(SubSeq(s, 1, Len(s) - 1)) ELSE s

\* strings.TrimSpace
TrimSpace(s) == TrimRight(TrimLeft(s))

\* strings.HasPrefix
HasPrefix(s, p) == Len(s) >= Len(p) /\ SubSeq(s, 1, Len(p)) = p

HasSuffix(s, p) ==
    Len(s) >= Len(p) /\ SubSeq(s, Len(s) - Len(p) + 1, Len(s)) = p

RECURSIVE Join(_, _)
\* strings.Join
Join(ss, sep) ==
    IF ss = <<>> THEN <<>>
    ELSE IF Len(ss) = 1 THEN ss[1]
    ELSE ss[1] \o sep \o Join(Tail(ss), sep)

RECURSIVE ReplaceAll(_, _, _)
\* Regexp.ReplaceAllString for a pattern that is a literal: leftmost,
\* non-overlapping occurrences of pat become rep.
ReplaceAll(s, pat, rep) ==
    LET i == Index(s, pat)
    IN IF i = 0 THEN s
       ELSE SubSeq(s, 1, i - 1) \o rep
            \o ReplaceAll(Drop(s, i + Len(pat) - 1), pat, rep)

\* ---------------------------------------------------------------- formatURN
Arrow == <<" ", "->", " ">>

DynamicResource ==
    <<"p","u","l","u","m","i","-","n","o","d","e","j","s",":",
      "d","y","n","a","m","i","c",":","R","e","s","o","u","r","c","e">>

SstSst == <<"s","s","t",":","s","s","t",":">>

SstColon == <<"s","s","t",":">>

DotSstDot == <<".","s","s","t",".">>

RECURSIVE StripSubpath(_)
\* regexp `\/[^:]+` replaced by "": a slash followed by at least one
\* character other than ':' is removed together with the whole run.
StripSubpath(s) ==
    IF s = <<>> THEN <<>>
    ELSE IF s[1] = "/" /\ Len(s) >= 2 /\ s[2] # ":"
    THEN LET rest == Tail(s)
             stop == Index(rest, <<":">>)
         IN IF stop = 0 THEN <<>> ELSE StripSubpath(Drop(rest, stop - 1))
    ELSE <<s[1]>> \o StripSubpath(Tail(s))

\* Start of the leftmost match of `\.sst\.(.+)$` in name, 0 when there is
\* none: ".sst." followed by a non-empty tail without a newline, up to the
\* end of the text.
SstMatch(name) ==
    LET hits == {i \in 1..(Len(name) - 5) :
                    /\ SubSeq(name, i, i + 4) = DotSstDot
                    /\ \A j \in (i + 5)..Len(name) : name[j] # NL}
    IN IF hits = {} THEN 0 ELSE CHOOSE i \in hits : \A j \in hits : i <= j

\* strings.Split(urn, "::")
URNSegments(urn) == Split(urn, <<":", ":">>)

\* formatURN indexes splits[0] and splits[1] of Split(urn, "::")[2:]; with
\* fewer than four segments the slice expression or the index panics.
FormatURNPanics(urn) == Len(URNSegments(urn)) < 4

\* formatURN, defined where it does not panic.
FormatURN(urn) ==
    LET splits == Drop(URNSegments(urn), 2)
        urn0 == splits[1]
        resourceName0 == splits[2]
        urn1 == StripSubpath(urn0)
        urn2 == ReplaceAll(urn1, SstSst, SstColon)
        m == SstMatch(resourceName0)
        dyn == HasSuffix(urn2, DynamicResource) /\ m # 0
        urn3 == IF dyn
                THEN SubSeq(urn2, 1, Len(urn2) - Len(DynamicResource))
                     \o Drop(resourceName0, m + 4)
                ELSE urn2
        resourceName1 == IF dyn THEN SubSeq(resourceName0, 1, m - 1)
                         ELSE resourceName0
        urn4 == ReplaceAll(urn3, <<"$">>, Arrow)
        urn5 == ReplaceAll(urn4, <<"$">>, Arrow)
    IN urn5 \o Arrow \o resourceName1

\* ------------------------------------------------------------ time.Duration
MaxDuration == 2^(DurationBits - 1) - 1

MinDuration == -(2^(DurationBits - 1))

\* The zero time.Time, which a Go map lookup yields for a missing key.
ZeroTime == 0

\* Clock reading when progress starts: the wall clock is further from the
\* zero Time than the largest Duration.
StartNow == MaxDuration + Millisecond

\* Time.Sub: the difference, saturated to the range of a Duration.
TimeSub(t, u) ==
    IF t - u > MaxDuration THEN MaxDuration
    ELSE IF t - u < MinDuration THEN MinDuration
    ELSE t - u

\* Duration.Truncate(m) in the place of Round: towards zero.
DurationTruncate(d, m) == IF m <= 0 THEN d ELSE d - (d % m)

\* Duration.Round(m): nearest multiple of m, halfway values away from zero,
\* the largest (smallest) Duration when the result overflows.
DurationRound(d, m) ==
    IF m <= 0 THEN d
    ELSE IF d < 0
    THEN LET r == (-d) % m
         IN IF r + r < m THEN d + r
            ELSE IF d - m + r >= MinDuration THEN d - m + r
            ELSE MinDuration
    ELSE LET r == d % m
         IN IF r + r < m THEN d - r
            ELSE IF d + m - r <= MaxDuration THEN d + m - r
            ELSE MaxDuration

\* ------------------------------------------------------------------ spinner
\* The spinner as progress uses it: active (started, repainting on its
\* timer) and enabled (not suspended), with its suffix text.
SpinNew == [active |-> FALSE, enabled |-> TRUE, Suffix |-> ""]

SpinStart(s) == IF s.active \/ ~s.enabled THEN s ELSE [s EXCEPT !.active = TRUE]

\* A Stop that leaves the spinner running.
SpinStopNot(s) == s

SpinStop(s) == [s EXCEPT !.active = FALSE]

SpinDisable(s) == [s EXCEPT !.enabled = FALSE, !.active = FALSE]

SpinEnable(s) == [s EXCEPT !.enabled = TRUE, !.active = TRUE]

\* The spinner repaints the terminal on its own.
Animating(s) == s.active /\ s.enabled

ModeSuffix(m) ==
    IF m = "remove" THEN "  Removing..."
    ELSE IF m = "deploy" THEN "  Deploying..."
    ELSE IF m = "cancel" THEN "  Cancelling..."
    ELSE IF m = "refresh" THEN "  Refreshing..."
    ELSE ""

ProgressModes == {"deploy", "remove", "cancel", "refresh"}

\* ------------------------------------------------------------------- events
StackType == "pulumi:pulumi:Stack"

\* An empty outputs map.
NoOutputs == [k \in {} |-> ""]

\* One delivered event: exactly one variant is populated (kind); dt is the
\* time that passes between the previous event and this one.
Evt(kind, urn, type, op, outs, sev, msg, dt) ==
    [kind |-> kind, urn |-> urn, type |-> type, op |-> op, outputs |-> outs,
     severity |-> sev, message |-> msg, dt |-> dt]

SummaryEvent(dt) == Evt("Summary", <<>>, "", "", NoOutputs, "", <<>>, dt)

ConcurrentUpdateEvent(dt) ==
    Evt("ConcurrentUpdate", <<>>, "", "", NoOutputs, "", <<>>, dt)

StdOutEvent(text, dt) == Evt("StdOut", <<>>, "", "", NoOutputs, "", text, dt)

ResourcePreEvent(urn, type, op, dt) ==
    Evt("ResourcePre", urn, type, op, NoOutputs, "", <<>>, dt)

ResOutputsEvent(urn, type, op, outs, dt) ==
    Evt("ResOutputs", urn, type, op, outs, "", <<>>, dt)

ResOpFailedEvent(urn, dt) ==
    Evt("ResOpFailed", urn, "", "", NoOutputs, "", <<>>, dt)

DiagnosticEvent(urn, sev, msg, dt) ==
    Evt("Diagnostic", urn, "", "", NoOutputs, sev, msg, dt)

\* ------------------------------------------------------------------- labels
Skipped == <<"S","k","i","p","p","e","d">>

Creating == <<"C","r","e","a","t","i","n","g">>

Updating == <<"U","p","d","a","t","i","n","g">>

Deleting == <<"D","e","l","e","t","i","n","g">>

Refreshing == <<"R","e","f","r","e","s","h","i","n","g">>

Refreshed == <<"R","e","f","r","e","s","h","e","d">>

Created == <<"C","r","e","a","t","e","d">>

Updated == <<"U","p","d","a","t","e","d">>

Deleted == <<"D","e","l","e","t","e","d">>

ErrorLabel == <<"E","r","r","o","r">>

NoLabel == <<>>

\* The label of the status line of a non-root ResourcePre, NoLabel when the
\* if-chain of lines 136-210 matches no op.
PreLabel(op) ==
    IF op = "same" THEN Skipped
    ELSE IF op = "create" THEN Creating
    ELSE IF op = "update" THEN Updating
    ELSE IF op = "create-replacement" THEN Creating
    ELSE IF op = "delete-replaced" THEN Deleting
    ELSE IF op = "replace" THEN Creating
    ELSE IF op = "delete" THEN Deleting
    ELSE IF op = "refresh" THEN Refreshing
    ELSE NoLabel

\* Line 219 with `||` in the place of `&&`: "Refreshed" for every
\* ResourceOutputs in refresh mode.
OutLabelRefreshAll(op, m) ==
    IF op = "same" \/ m = "refresh" THEN Refreshed
    ELSE IF op = "create" THEN Created
    ELSE IF op = "update" THEN Updated
    ELSE IF op = "delete" THEN Deleted
    ELSE IF op = "delete-replaced" THEN Deleted
    ELSE IF op = "create-replacement" THEN Created
    ELSE IF op = "replace" THEN Created
    ELSE NoLabel

\* The label of the status line of a ResourceOutputs that is not the root
\* output, NoLabel when the if-chain of lines 219-282 matches no op.
OutLabel(op, m) ==
    IF op = "same" /\ m = "refresh" THEN Refreshed
    ELSE IF op = "create" THEN Created
    ELSE IF op = "update" THEN Updated
    ELSE IF op = "delete" THEN Deleted
    ELSE IF op = "delete-replaced" THEN Deleted
    ELSE IF op = "create-replacement" THEN Created
    ELSE IF op = "replace" THEN Created
    ELSE NoLabel

\* The Progress struct handed to printProgress.
Progress(label, urn, final, msg, duration) ==
    [Label |-> label, URN |-> urn, Final |-> final, Message |-> msg,
     Duration |-> duration]

\* -------------------------------------------------------------------- state
VARIABLES
    mode,       \* the ProgressMode argument
    stream,     \* the events the channel delivers, in delivery order
    pos,        \* index in stream of the next event to receive
    pc,         \* "start", "loop", "returned" or "panic"
    result,     \* the value progress returned, "none" before it returns
    spin,       \* the spinner
    dedupe,     \* keys of the status lines already printed
    timing,     \* urn -> time of its latest ResourcePre
    errors,     \* recorded errorStatus entries
    outputs,    \* outputs of the stack
    out,        \* lines written to the terminal, in order
    now         \* the clock

vars == <<mode, stream, pos, pc, result, spin, dedupe, timing, errors,
          outputs, out, now>>

\* The state of the SsrSite component and of its DistributionInvalidation
\* resource, which progress neither reads nor writes.
VARIABLES
    site,            \* the arguments and the plan of the SsrSite
    uploaded,        \* uploadedObjects
    args,            \* the arguments of new DistributionInvalidation(...)
    inputs,          \* the Inputs of the provider
    ppc,             \* where the component is
    step,            \* i of the loop of invalidate, the index of the wait loop
    requests,        \* the CreateInvalidation requests sent, in order
    invalidationIds, \* the ids collected by invalidate
    waits            \* the waits made, in order

cvars == <<site, uploaded, args, inputs, ppc, step, requests,
           invalidationIds, waits>>

\* No SsrSite is being constructed.
Dormant ==
    /\ site = <<>>
    /\ uploaded = <<>>
    /\ args = <<>>
    /\ inputs = <<>>
    /\ ppc = "none"
    /\ step = 0
    /\ requests = <<>>
    /\ invalidationIds = <<>>
    /\ waits = <<>>

\* A line written to the terminal: evt is the index of the event being
\* handled (Len(stream) + 1 for the final report) and animating tells
\* whether the spinner was repainting while the line was written.
Line(kind, label, urn, text, duration, msg, outs) ==
    [kind |-> kind, evt |-> pos, Label |-> label, URN |-> urn,
     text |-> text, hasDuration |-> (duration # 0), Duration |-> duration,
     Message |-> msg, outputs |-> outs, animating |-> Animating(spin)]

\* timing[urn], the zero Time for a urn that has no entry.
TimingAt(urn) == IF urn \in DOMAIN timing THEN timing[urn] ELSE ZeroTime

\* errorStatus
ErrorStatus(msg, urn) == [Error |-> msg, URN |-> urn]

\* All sequences over U of length at most n.
SeqsUpTo(U, n) == UNION {[1..k -> U] : k \in 0..n}

\* The state at the entry of progress(mode, events).
InitWith(U, M) ==
    /\ mode \in M
    /\ stream \in SeqsUpTo(U, MaxEvents)
    /\ pos = 1
    /\ pc = "start"
    /\ result = "none"
    /\ spin = SpinNew
    /\ dedupe = {}
    /\ timing = [u \in {} |-> ZeroTime]
    /\ errors = <<>>
    /\ outputs = NoOutputs
    /\ out = <<>>
    /\ now = StartNow
    /\ Dormant

\* Lines 34-49: the suffix of the mode, then spin.Start().
Start ==
    /\ pc = "start"
    /\ pc' = "loop"
    /\ spin' = SpinStart([spin EXCEPT !.Suffix = ModeSuffix(mode)])
    /\ UNCHANGED <<mode, stream, pos, result, dedupe, timing, errors,
                   outputs, out, now>>
    /\ UNCHANGED cvars

\* The event the range loop receives next, and the clock when it arrives.
Receiving(kind) ==
    /\ pc = "loop"
    /\ pos <= Len(stream)
    /\ stream[pos].kind = kind
    /\ now' = now + stream[pos].dt

\* Line 77 with the urn alone as the key.
DedupeKeyOfUrn(p) == p.URN

\* Line 77: dedupeKey := progress.URN + progress.Label
DedupeKey(p) == p.URN \o p.Label

\* Line 78: the dedupe test that never matches.
SeenNever(key) == FALSE

\* Line 78: dedupe[dedupeKey].
Seen(key) == key \in dedupe

\* printProgress (lines 75-103) followed by the `continue` or the end of the
\* loop body.  The spinner is disabled before the dedupe test; the deferred
\* Enable is registered only after it.  formatURN is evaluated after the
\* marker has been written; when it panics the deferred spin.Enable() and
\* the deferred spin.Stop() of progress run and the process dies.  The
\* branch `!progress.Final && false` of line 83 is never taken.
PrintProgress(p) ==
    LET dedupeKey == DedupeKey(p)
        off == SpinDisable(spin)
    IN IF Seen(dedupeKey)
       THEN /\ spin' = off
            /\ pos' = pos + 1
            /\ UNCHANGED <<dedupe, out, pc>>
       ELSE /\ dedupe' = dedupe \cup {dedupeKey}
            /\ IF FormatURNPanics(p.URN)
               THEN /\ out' = Append(out,
                          [Line("marker", p.Label, p.URN, <<>>, 0, <<>>,
                                NoOutputs) EXCEPT !.animating = Animating(off)])
                    /\ spin' = SpinStop(SpinEnable(off))
                    /\ pc' = "panic"
                    /\ pos' = pos
               ELSE /\ out' = Append(out,
                          [Line("status", p.Label, p.URN, FormatURN(p.URN),
                                p.Duration, p.Message, NoOutputs)
                           EXCEPT !.animating = Animating(off)])
                    /\ spin' = SpinEnable(off)
                    /\ pc' = pc
                    /\ pos' = pos + 1

\* Lines 114-116: a SummaryEvent changes the suffix; no later test matches.
HandleSummary ==
    /\ Receiving("Summary")
    /\ spin' = [spin EXCEPT !.Suffix = "  Finalizing..."]
    /\ pos' = pos + 1
    /\ UNCHANGED <<mode, stream, pc, result, dedupe, timing, errors,
                   outputs, out>>
    /\ UNCHANGED cvars

\* Lines 117-121 with `continue` in the place of `return false`.
HandleConcurrentUpdateContinue ==
    /\ Receiving("ConcurrentUpdate")
    /\ out' = Append(out,
           [Line("concurrent", NoLabel, <<>>, <<>>, 0, <<>>, NoOutputs)
            EXCEPT !.animating = Animating(SpinDisable(spin))])
    /\ spin' = SpinDisable(spin)
    /\ pos' = pos + 1
    /\ UNCHANGED <<mode, stream, pc, result, dedupe, timing, errors, outputs>>
    /\ UNCHANGED cvars

\* Lines 117-121, and the deferred spin.Stop() of line 49.
HandleConcurrentUpdate ==
    /\ Receiving("ConcurrentUpdate")
    /\ out' = Append(out,
           [Line("concurrent", NoLabel, <<>>, <<>>, 0, <<>>, NoOutputs)
            EXCEPT !.animating = Animating(SpinDisable(spin))])
    /\ spin' = SpinStop(SpinDisable(spin))
    /\ result' = FALSE
    /\ pc' = "returned"
    /\ pos' = pos + 1
    /\ UNCHANGED <<mode, stream, dedupe, timing, errors, outputs>>
    /\ UNCHANGED cvars

\* Lines 123-128 without the spin.Disable() of line 124.
HandleStdOutNoDisable ==
    /\ Receiving("StdOut")
    /\ out' = Append(out,
           Line("stdout", NoLabel, <<>>, stream[pos].message, 0, <<>>,
                NoOutputs))
    /\ spin' = SpinEnable(spin)
    /\ pos' = pos + 1
    /\ UNCHANGED <<mode, stream, pc, result, dedupe, timing, errors, outputs>>
    /\ UNCHANGED cvars

\* Lines 123-128.
HandleStdOut ==
    /\ Receiving("StdOut")
    /\ out' = Append(out,
           [Line("stdout", NoLabel, <<>>, stream[pos].message, 0, <<>>,
                 NoOutputs)
            EXCEPT !.animating = Animating(SpinDisable(spin))])
    /\ spin' = SpinEnable(SpinDisable(spin))
    /\ pos' = pos + 1
    /\ UNCHANGED <<mode, stream, pc, result, dedupe, timing, errors, outputs>>
    /\ UNCHANGED cvars

\* Lines 130-211.
HandleResourcePre ==
    /\ Receiving("ResourcePre")
    /\ LET e == stream[pos]
       IN /\ timing' = [u \in DOMAIN timing \cup {e.urn} |->
                           IF u = e.urn THEN now' ELSE timing[u]]
          /\ IF e.type = StackType \/ PreLabel(e.op) = NoLabel
             THEN /\ pos' = pos + 1
                  /\ UNCHANGED <<spin, dedupe, out, pc>>
             ELSE PrintProgress(
                      Progress(PreLabel(e.op), e.urn, e.op = "same", <<>>, 0))
    /\ UNCHANGED <<mode, stream, result, errors, outputs>>
    /\ UNCHANGED cvars

\* Line 214 without the test of the op.
IsRootOutputAnyOp(e) == e.type = StackType

\* Line 214: the outputs event of the stack, unless the stack is deleted.
IsRootOutput(e) == e.type = StackType /\ e.op # "delete"

\* Line 215 merging the new map into the old one.
MergeOutputs(old, new) ==
    [k \in DOMAIN old \cup DOMAIN new |->
        IF k \in DOMAIN new THEN new[k] ELSE old[k]]

\* Line 215: the assignment replaces the map.
AssignOutputs(old, new) == new

\* Lines 213-283.
HandleResOutputs ==
    /\ Receiving("ResOutputs")
    /\ LET e == stream[pos]
           duration == DurationRound(TimeSub(now', TimingAt(e.urn)),
                                     Millisecond)
       IN IF IsRootOutput(e)
          THEN /\ outputs' = AssignOutputs(outputs, e.outputs)
               /\ pos' = pos + 1
               /\ UNCHANGED <<spin, dedupe, out, pc>>
          ELSE /\ UNCHANGED outputs
               /\ IF OutLabel(e.op, mode) = NoLabel
                  THEN /\ pos' = pos + 1
                       /\ UNCHANGED <<spin, dedupe, out, pc>>
                  ELSE PrintProgress(
                           Progress(OutLabel(e.op, mode), e.urn, TRUE, <<>>,
                                    duration))
    /\ UNCHANGED <<mode, stream, result, timing, errors>>
    /\ UNCHANGED cvars

\* Lines 285-286: an empty body.
HandleResOpFailed ==
    /\ Receiving("ResOpFailed")
    /\ pos' = pos + 1
    /\ UNCHANGED <<mode, stream, pc, result, spin, dedupe, timing, errors,
                   outputs, out>>
    /\ UNCHANGED cvars

\* Lines 291-296 with the test len(lines) >= 2.
ShortMessageFromTwoLines(message) ==
    LET lines == Split(message, <<NL>>)
    IN IF Len(lines) >= 2
       THEN LET parts == Split(lines[2], <<":">>)
            IN TrimSpace(parts[Len(parts)])
       ELSE message

\* Lines 291-296: the short message of an attributed error diagnostic.
ShortMessage(message) ==
    LET lines == Split(message, <<NL>>)
    IN IF Len(lines) > 2
       THEN LET parts == Split(lines[2], <<":">>)
            IN TrimSpace(parts[Len(parts)])
       ELSE message

RECURSIVE TrimmedLines(_)
\* Lines 312-322: the trimmed non-empty lines, those starting with "at"
\* indented by three spaces.
TrimmedLines(lines) ==
    IF lines = <<>> THEN <<>>
    ELSE LET trimmed == TrimSpace(Head(lines))
         IN IF trimmed = <<>> THEN TrimmedLines(Tail(lines))
            ELSE IF HasPrefix(trimmed, <<"a", "t">>)
            THEN <<<<" ", " ", " ">> \o trimmed>> \o TrimmedLines(Tail(lines))
            ELSE <<trimmed>> \o TrimmedLines(Tail(lines))

\* Line 289 letting warnings through as well.
IsErrorOrWarning(severity) == severity \in {"error", "warning"}

\* Line 289: only diagnostics of severity "error" have an effect.
IsError(severity) == severity = "error"

\* Line 323 recording a single line as well.
ActionableAny(outLines) == Len(outLines) > 0

\* Line 323: an unattributed error is recorded when it has several lines.
Actionable(outLines) == Len(outLines) > 1

\* Lines 297 and 324 putting the new entry in front.
PrependError(es, status) == <<status>> \o es

\* Lines 297 and 324: errors = append(errors, ...).
AppendError(es, status) == Append(es, status)

\* Lines 288-329.
HandleDiagnostic ==
    /\ Receiving("Diagnostic")
    /\ LET e == stream[pos]
       IN IF ~IsError(e.severity)
          THEN /\ pos' = pos + 1
               /\ UNCHANGED <<spin, dedupe, out, pc, errors>>
          ELSE IF e.urn # <<>>
          THEN LET msg == ShortMessage(e.message)
               IN /\ errors' = AppendError(errors, ErrorStatus(msg, e.urn))
                  /\ PrintProgress(Progress(ErrorLabel, e.urn, TRUE, msg, 0))
          ELSE LET outLines == TrimmedLines(Split(e.message, <<NL>>))
               IN /\ errors' = IF Actionable(outLines)
                               THEN AppendError(errors,
                                        ErrorStatus(Join(outLines, <<NL>>),
                                                    <<>>))
                               ELSE errors
                  /\ pos' = pos + 1
                  /\ UNCHANGED <<spin, dedupe, out, pc>>
    /\ UNCHANGED <<mode, stream, result, timing, outputs>>
    /\ UNCHANGED cvars

\* Line 334 testing only the errors attributed to a resource.
VerdictAttributedOnly(es) == \A i \in 1..Len(es) : es[i].URN = <<>>

\* Line 334: the run succeeded when no error was recorded.
Verdict(es) == Len(es) = 0

RECURSIVE FailedLines(_)
\* Lines 352-358: one line per recorded error, up to the first urn that
\* formatURN cannot format.
FailedLines(es) ==
    IF es = <<>> THEN <<>>
    ELSE LET status == Head(es)
         IN IF status.URN # <<>> /\ FormatURNPanics(status.URN) THEN <<>>
            ELSE <<[Line("failed-entry", NoLabel, status.URN,
                         (IF status.URN # <<>>
                          THEN FormatURN(status.URN) \o <<":", " ">>
                          ELSE <<>>) \o TrimSpace(status.Error),
                         0, <<>>, NoOutputs)
                    EXCEPT !.animating = FALSE]>>
                 \o FailedLines(Tail(es))

\* Lines 332-360: the end of the stream; spin.Stop(), then the report.
Finish ==
    /\ pc = "loop"
    /\ pos > Len(stream)
    /\ spin' = SpinStop(spin)
    /\ IF Verdict(errors)
       THEN /\ out' = Append(out,
                   [Line("complete", NoLabel, <<>>, <<>>, 0, <<>>, outputs)
                    EXCEPT !.animating = Animating(SpinStop(spin))])
            /\ result' = TRUE
            /\ pc' = "returned"
       ELSE LET entries == FailedLines(errors)
            IN /\ out' = Append(out,
                      [Line("failed", NoLabel, <<>>, <<>>, 0, <<>>, NoOutputs)
                       EXCEPT !.animating = Animating(SpinStop(spin))])
                      \o entries
               /\ IF Len(entries) = Len(errors)
                  THEN result' = FALSE /\ pc' = "returned"
                  ELSE result' = result /\ pc' = "panic"
    /\ UNCHANGED <<mode, stream, pos, dedupe, timing, errors, outputs, now>>
    /\ UNCHANGED cvars

Next ==
    \/ Start
    \/ HandleSummary
    \/ HandleConcurrentUpdate
    \/ HandleStdOut
    \/ HandleResourcePre
    \/ HandleResOutputs
    \/ HandleResOpFailed
    \/ HandleDiagnostic
    \/ Finish

\* ------------------------------------------------------------ event streams
\* A well-formed urn: stack::project::type::name.
UrnA == <<"s",":",":","p",":",":","t",":",":","a">>

\* A urn of three segments.
UrnShort == <<"s",":",":","p",":",":","t">>

\* A urn of one segment.
UrnOne == <<"a">>

BucketType == "aws:s3/bucket:Bucket"

\* "h\nE: boom\nt": three lines, the second one `label: detail`.
MsgBoom == <<"h", NL, "E", ":", " ", "b", "o", "o", "m", NL, "t">>

\* "e\n at x": two non-empty lines, the second a stack frame.
MsgGlobal == <<"e", NL, " ", "a", "t", " ", "x">>

OutputsUrl == [k \in {"url"} |-> "https://a"]

\* The events of the streams of Spec.
Universe ==
    { SummaryEvent(1),
      ConcurrentUpdateEvent(1),
      StdOutEvent(<<"h", "i">>, 1),
      ResOpFailedEvent(UrnA, 1),
      ResourcePreEvent(UrnA, BucketType, "create", 1),
      ResourcePreEvent(UrnA, StackType, "create", 1),
      ResourcePreEvent(UrnShort, BucketType, "create", 1),
      ResOutputsEvent(UrnA, BucketType, "create", NoOutputs, 1),
      ResOutputsEvent(UrnA, BucketType, "create", NoOutputs, 2),
      ResOutputsEvent(UrnA, BucketType, "update", NoOutputs, 3),
      ResOutputsEvent(UrnA, BucketType, "same", NoOutputs, 1),
      ResOutputsEvent(UrnA, StackType, "update", OutputsUrl, 1),
      DiagnosticEvent(UrnA, "error", MsgBoom, 1),
      DiagnosticEvent(<<>>, "error", MsgGlobal, 1),
      DiagnosticEvent(UrnOne, "error", <<"x">>, 1),
      DiagnosticEvent(UrnA, "warning", MsgBoom, 1) }

Init == InitWith(Universe, {"deploy", "refresh"})

Spec == Init /\ [][Next]_vars

\* --------------------------------------------------------------- properties
\* A ConcurrentUpdate event has been received.
Aborted == \E i \in 1..(pos - 1) : stream[i].kind = "ConcurrentUpdate"

HasConcurrentUpdate ==
    \E i \in 1..Len(stream) : stream[i].kind = "ConcurrentUpdate"

IsReport(l) == l.kind \in {"complete", "failed"}

\* The label of the status line an event asks printProgress for, NoLabel
\* when it asks for none.
EventLabel(e) ==
    IF e.kind = "ResourcePre" /\ e.type # StackType THEN PreLabel(e.op)
    ELSE IF e.kind = "ResOutputs" /\ ~(e.type = StackType /\ e.op # "delete")
    THEN OutLabel(e.op, mode)
    ELSE IF e.kind = "Diagnostic" /\ e.severity = "error" /\ e.urn # <<>>
    THEN ErrorLabel
    ELSE NoLabel

RECURSIVE ArrivalTime(_)
\* The clock when event k of the stream is handled.
ArrivalTime(k) == IF k = 0 THEN StartNow ELSE ArrivalTime(k - 1) + stream[k].dt

\* d rounded to the nearest whole millisecond, halves upwards.
RoundNearest(d) == ((2 * d + Millisecond) \div (2 * Millisecond)) * Millisecond

\* The ResourcePre events for the urn of event k handled before event k.
PresBefore(k) ==
    {j \in 1..(k - 1) :
        stream[j].kind = "ResourcePre" /\ stream[j].urn = stream[k].urn}

Latest(S) == CHOOSE j \in S : \A i \in S : i <= j

\* The duration a line shows, zero when it shows none.
ShownDuration(l) == IF l.hasDuration THEN l.Duration ELSE 0

\* The final status lines printed for ResourceOutputs events.
OutputLines ==
    {i \in 1..Len(out) :
        out[i].kind = "status" /\ stream[out[i].evt].kind = "ResOutputs"}

\* C1: once a ConcurrentUpdate event has been received progress has returned
\* failure, and no later step prints a line or changes timing, dedupe,
\* errors or outputs or receives another event.
ShortCircuit ==
    /\ [](Aborted => pc = "returned" /\ result = FALSE)
    /\ [][Aborted => UNCHANGED <<timing, dedupe, errors, outputs, out, pos>>]_vars

\* An error was recorded, then a ConcurrentUpdate arrived with events still
\* behind it in the stream.
ShortCircuitWitness ==
    /\ Aborted
    /\ pc = "returned"
    /\ pos <= Len(stream)
    /\ Len(errors) > 0

\* C2 as stated: progress returns success exactly when no error was
\* recorded.
VerdictIffNoErrors ==
    pc = "returned" => (result = TRUE <=> Len(errors) = 0)

\* C2 amended: when progress returns, it returns success exactly when no
\* error was recorded and no ConcurrentUpdate event was received.
VerdictCorrect ==
    pc = "returned" => (result = TRUE <=> (Len(errors) = 0 /\ ~Aborted))

\* progress drained the stream and returned failure with a single recorded
\* error, one that is attributed to no resource.
VerdictWitness ==
    /\ pc = "returned"
    /\ ~Aborted
    /\ result = FALSE
    /\ Len(errors) = 1
    /\ errors[1].URN = <<>>

\* C3: no two status lines printed during a run have the same urn and the
\* same label.
AtMostOneLinePerKey ==
    \A i, j \in 1..Len(out) :
        (i < j /\ out[i].kind = "status" /\ out[j].kind = "status")
            => ~(out[i].URN = out[j].URN /\ out[i].Label = out[j].Label)

\* ResourceOutputs(create) for one urn was handled twice in a row and a
\* single "Created" line is on the terminal.
DedupWitness ==
    /\ pos > 2
    /\ stream[1].kind = "ResOutputs" /\ stream[2].kind = "ResOutputs"
    /\ stream[1].op = "create" /\ stream[2].op = "create"
    /\ stream[1].type = BucketType /\ stream[2].type = BucketType
    /\ stream[1].urn = stream[2].urn
    /\ Cardinality({i \in 1..Len(out) :
            out[i].kind = "status" /\ out[i].Label = Created}) = 1

\* C4: handling an event whose (urn, label) key is already in the dedupe set
\* prints no line and leaves errors, outputs, timing and the dedupe set as
\* they were.
DedupIdempotent ==
    [][(/\ pc = "loop"
        /\ pos <= Len(stream)
        /\ EventLabel(stream[pos]) # NoLabel
        /\ (stream[pos].urn \o EventLabel(stream[pos])) \in dedupe)
       => UNCHANGED <<errors, outputs, timing, dedupe, out>>]_vars

\* C5: after an event other than ConcurrentUpdate has been handled the
\* spinner is not left suspended.
ResumedAfterEvent == (pc = "loop" /\ pos > 1) => spin.enabled

\* C6: no line is written to the terminal while the spinner is started and
\* not suspended.
NoWriteWhileAnimating == \A i \in 1..Len(out) : ~out[i].animating

\* A status line, a StdOut line and the final report have been written.
WritesWitness ==
    /\ \E i \in 1..Len(out) : out[i].kind = "status"
    /\ \E i \in 1..Len(out) : out[i].kind = "stdout"
    /\ \E i \in 1..Len(out) : IsReport(out[i])

\* C7: on a stream without ConcurrentUpdate, progress ends having handled
\* every event, and prints exactly one final report, after the lines of the
\* events.
DrainsToEnd ==
    (~HasConcurrentUpdate /\ pc \notin {"start", "loop"})
        => /\ pc = "returned"
           /\ pos = Len(stream) + 1
           /\ Cardinality({i \in 1..Len(out) : IsReport(out[i])}) = 1
           /\ \A i, j \in 1..Len(out) :
                  (IsReport(out[i]) /\ out[j].evt <= Len(stream)) => j < i

\* C8: handling an event and printing the final report never panics.
NeverPanics == pc # "panic"

\* C9: the final line of a ResourceOutputs that follows a ResourcePre for
\* the same urn shows the time elapsed since the latest such ResourcePre,
\* rounded to whole milliseconds.
DurationCorrect ==
    \A i \in OutputLines :
        LET k == out[i].evt
        IN PresBefore(k) # {}
               => ShownDuration(out[i]) =
                      RoundNearest(ArrivalTime(k)
                                   - ArrivalTime(Latest(PresBefore(k))))

\* A final line after a ResourcePre whose elapsed time is not a whole number
\* of milliseconds and is shown rounded up.
DurationWitness ==
    \E i \in OutputLines :
        LET k == out[i].evt
        IN /\ PresBefore(k) # {}
           /\ out[i].hasDuration
           /\ out[i].Duration >
                  ArrivalTime(k) - ArrivalTime(Latest(PresBefore(k)))

\* C10: the final line of a ResourceOutputs that no ResourcePre for the same
\* urn preceded shows no duration.
NoPreNoDuration ==
    \A i \in OutputLines :
        PresBefore(out[i].evt) = {} => ~out[i].hasDuration

\* ------------------------------------------------- streams of stack outputs
OutputsApi == [k \in {"api"} |-> "https://b"]

\* Streams in which the stack publishes its outputs several times, is
\* deleted, and a resource that is not the stack carries outputs.
UniverseOutputs ==
    { SummaryEvent(1),
      ConcurrentUpdateEvent(1),
      StdOutEvent(<<"h", "i">>, 1),
      ResOpFailedEvent(UrnA, 1),
      ResourcePreEvent(UrnA, BucketType, "create", 1),
      ResOutputsEvent(UrnA, StackType, "update", OutputsUrl, 1),
      ResOutputsEvent(UrnA, StackType, "create", OutputsApi, 1),
      ResOutputsEvent(UrnA, StackType, "same", NoOutputs, 1),
      ResOutputsEvent(UrnA, StackType, "delete", OutputsApi, 1),
      ResOutputsEvent(UrnA, BucketType, "create", OutputsUrl, 1),
      DiagnosticEvent(UrnA, "error", MsgBoom, 1) }

InitOutputs == InitWith(UniverseOutputs, {"deploy"})

SpecOutputs == InitOutputs /\ [][Next]_vars

\* Event k is a ResourceOutputs of the stack whose op is not delete.
RootNonDelete(k) ==
    /\ stream[k].kind = "ResOutputs"
    /\ stream[k].type = StackType
    /\ stream[k].op # "delete"

\* The event the loop is about to handle.
Handling == pc = "loop" /\ pos <= Len(stream)

\* The root output events handled so far.
RootsHandled == {k \in 1..(pos - 1) : RootNonDelete(k)}

\* C11: handling a ResourceOutputs of the stack with an op other than delete
\* prints nothing, and outputs is always exactly the map of the latest such
\* event handled (the empty map before the first), never a merge.
RootOutputIsolation ==
    /\ [][(Handling /\ RootNonDelete(pos))
             => (out' = out /\ outputs' = stream[pos].outputs)]_vars
    /\ [](outputs = IF RootsHandled = {} THEN NoOutputs
                    ELSE stream[Latest(RootsHandled)].outputs)

\* Two root output events with different keys were handled one after the
\* other; outputs is the second map and nothing was printed.
RootOutputWitness ==
    /\ pos > 2
    /\ RootNonDelete(1) /\ RootNonDelete(2)
    /\ DOMAIN stream[1].outputs # {}
    /\ DOMAIN stream[2].outputs # {}
    /\ DOMAIN stream[1].outputs # DOMAIN stream[2].outputs
    /\ outputs = stream[2].outputs
    /\ out = <<>>

\* ----------------------------------------------------- streams of diagnostics
\* A second well-formed urn.
UrnB == <<"s",":",":","p",":",":","t",":",":","b">>

\* "E: x\ny": two lines.
MsgTwo == <<"E", ":", " ", "x", NL, "y">>

\* "x": one line.
MsgOne == <<"x">>

\* "h\na:b: c \nt\nu": four lines, two colons in the second one.
MsgColons == <<"h", NL, "a", ":", "b", ":", " ", "c", " ", NL, "t", NL, "u">>

\* "h\n m \nt": three lines, no colon in the second one.
MsgNoColon == <<"h", NL, " ", "m", " ", NL, "t">>

\* "  \n ": no line is left after trimming.
MsgBlank == <<" ", " ", NL, " ">>

\* "a\n\n \n": four lines, one of them not empty.
MsgPadded == <<"a", NL, NL, " ", NL>>

\* Streams of diagnostics on well-formed urns: attributed and unattributed,
\* errors and warnings, messages of one to four lines.
UniverseDiag ==
    { SummaryEvent(1),
      ConcurrentUpdateEvent(1),
      StdOutEvent(<<"h", "i">>, 1),
      ResOpFailedEvent(UrnA, 1),
      ResourcePreEvent(UrnA, BucketType, "update", 1),
      ResOutputsEvent(UrnA, BucketType, "update", NoOutputs, 3),
      DiagnosticEvent(UrnA, "error", MsgBoom, 1),
      DiagnosticEvent(UrnA, "error", MsgTwo, 1),
      DiagnosticEvent(UrnA, "error", MsgOne, 1),
      DiagnosticEvent(UrnA, "error", MsgColons, 1),
      DiagnosticEvent(UrnB, "error", MsgNoColon, 1),
      DiagnosticEvent(UrnA, "warning", MsgBoom, 1),
      DiagnosticEvent(<<>>, "error", MsgGlobal, 1),
      DiagnosticEvent(<<>>, "error", MsgOne, 1),
      DiagnosticEvent(<<>>, "error", MsgBlank, 1),
      DiagnosticEvent(<<>>, "error", MsgPadded, 1),
      DiagnosticEvent(<<>>, "warning", MsgGlobal, 1) }

InitDiag == InitWith(UniverseDiag, {"deploy"})

SpecDiag == InitDiag /\ [][Next]_vars

\* Event k is an error diagnostic attributed to a resource.
AttributedError(k) ==
    /\ stream[k].kind = "Diagnostic"
    /\ stream[k].severity = "error"
    /\ stream[k].urn # <<>>

\* Event k is an error diagnostic attributed to no resource.
UnattributedError(k) ==
    /\ stream[k].kind = "Diagnostic"
    /\ stream[k].severity = "error"
    /\ stream[k].urn = <<>>

\* The positions of the newlines of a message.
Newlines(m) == {i \in 1..Len(m) : m[i] = NL}

Least(S) == CHOOSE i \in S : \A j \in S : i <= j

\* The text between the first and the second newline of a message that has
\* at least two newlines.
SecondLine(m) ==
    LET n1 == Least(Newlines(m))
        n2 == Least(Newlines(m) \ {n1})
    IN SubSeq(m, n1 + 1, n2 - 1)

\* What follows the last ':' of s, s itself when it has none.
AfterLastColon(s) ==
    LET colons == {i \in 1..Len(s) : s[i] = ":"}
    IN IF colons = {} THEN s ELSE SubSeq(s, Latest(colons) + 1, Len(s))

\* s without the white space around it.
Trimmed(s) ==
    LET ink == {i \in 1..Len(s) : s[i] \notin Space}
    IN IF ink = {} THEN <<>> ELSE SubSeq(s, Least(ink), Latest(ink))

\* The short message of the extraction rule.
ExpectedShort(m) ==
    IF Cardinality(Newlines(m)) + 1 > 2
    THEN Trimmed(AfterLastColon(SecondLine(m)))
    ELSE m

\* A status line "Error" for the urn is on the terminal.
ErrorLinePrinted(urn) ==
    \E i \in 1..Len(out) :
        out[i].kind = "status" /\ out[i].Label = ErrorLabel /\ out[i].URN = urn

\* The step printed exactly one line, a status line "Error" for the urn of
\* the event with the short message as its detail and no duration.
EmitsErrorLine(e) ==
    /\ Len(out') = Len(out) + 1
    /\ SubSeq(out', 1, Len(out)) = out
    /\ LET l == out'[Len(out')]
       IN /\ l.kind = "status"
          /\ l.Label = ErrorLabel
          /\ l.URN = e.urn
          /\ l.Message = ExpectedShort(e.message)
          /\ ~l.hasDuration

NonEmptyLineCount(m) ==
    Cardinality({Cardinality({j \in Newlines(m) : j < i}) :
                    i \in {i \in 1..Len(m) : m[i] \notin Space}})

\* The stream records no error: its error diagnostics are all unattributed
\* and have at most one non-empty line.
OnlySingleLineGlobalErrors ==
    \A k \in 1..Len(stream) :
        (stream[k].kind = "Diagnostic" /\ stream[k].severity = "error")
            => /\ stream[k].urn = <<>>
               /\ NonEmptyLineCount(stream[k].message) <= 1

\* C13: an error diagnostic without urn prints no line and leaves dedupe,
\* timing, outputs and the spinner alone; it appends one entry without urn,
\* holding its non-empty lines, exactly when it has more than one non-empty
\* line, and otherwise leaves errors alone, so that a drained stream whose
\* only error diagnostics are such single-line ones returns success.
UnattributedRule ==
    /\ [][(Handling /\ UnattributedError(pos))
             => /\ out' = out
                /\ UNCHANGED <<dedupe, timing, outputs, spin>>
                /\ IF NonEmptyLineCount(stream[pos].message) > 1
                   THEN /\ Len(errors') = Len(errors) + 1
                        /\ SubSeq(errors', 1, Len(errors)) = errors
                        /\ errors'[Len(errors')].URN = <<>>
                        /\ Cardinality(Newlines(errors'[Len(errors')].Error))
                               + 1 = NonEmptyLineCount(stream[pos].message)
                   ELSE errors' = errors]_vars
    /\ []((pc = "returned" /\ ~Aborted /\ OnlySingleLineGlobalErrors)
             => result = TRUE)

\* A stream with an unattributed error diagnostic of several raw lines, one
\* of them non-empty, was drained and progress returned success.
UnattributedWitness ==
    /\ pc = "returned"
    /\ result = TRUE
    /\ errors = <<>>
    /\ \E k \in 1..Len(stream) :
           /\ UnattributedError(k)
           /\ NonEmptyLineCount(stream[k].message) = 1
           /\ Cardinality(Newlines(stream[k].message)) > 1

\* C14: the message recorded for an error diagnostic with a urn is, when the
\* raw message has more than two lines, the trimmed text after the last ':'
\* of its second line (the whole second line, trimmed, when it has no ':'),
\* and the raw message itself when it has one or two lines.
ShortMessageRule ==
    [][(Handling /\ AttributedError(pos))
          => LET m == stream[pos].message
                 recorded == errors'[Len(errors')].Error
             IN /\ Len(errors') = Len(errors) + 1
                /\ Cardinality(Newlines(m)) >= 2
                       => recorded = Trimmed(AfterLastColon(SecondLine(m)))
                /\ Cardinality(Newlines(m)) < 2 => recorded = m]_vars

\* A four-line message with two colons in its second line was recorded as
\* the text after the last colon, and a two-line message with a colon was
\* recorded whole.
ShortMessageWitness ==
    /\ \E i \in 1..Len(errors) :
           /\ errors[i].Error = <<"c">>
           /\ \E k \in 1..(pos - 1) :
                  AttributedError(k) /\ stream[k].message = MsgColons
    /\ \E i \in 1..Len(errors) : errors[i].Error = MsgTwo

\* The events handled so far that record an error.
Recording ==
    {k \in 1..(pos - 1) :
        \/ AttributedError(k)
        \/ UnattributedError(k) /\ NonEmptyLineCount(stream[k].message) > 1}

\* The position in the terminal of the "Failed:" header, 0 when there is
\* none.
FailedHeader ==
    LET hs == {i \in 1..Len(out) : out[i].kind = "failed"}
    IN IF hs = {} THEN 0 ELSE Least(hs)

\* C15: a step keeps the entries of errors and adds at most one at the end;
\* the entries are those of the recording events in the order these were
\* handled; the Failed report lists one line per entry, in that order.
ErrorsAppendOnly ==
    /\ [][/\ Len(errors') \in {Len(errors), Len(errors) + 1}
          /\ SubSeq(errors', 1, Len(errors)) = errors]_vars
    /\ [](pc \in {"loop", "returned"}
             => /\ Len(errors) = Cardinality(Recording)
                /\ \A k \in Recording :
                       errors[Cardinality({j \in Recording : j <= k})].URN
                           = stream[k].urn)
    /\ [](FailedHeader # 0
             => /\ Len(out) = FailedHeader + Len(errors)
                /\ \A i \in 1..Len(errors) :
                       LET l == out[FailedHeader + i]
                       IN /\ l.kind = "failed-entry"
                          /\ l.URN = errors[i].URN
                          /\ HasSuffix(l.text, Trimmed(errors[i].Error)))

\* The Failed report has been printed for three recorded errors, the first
\* two for different urns and the last without urn.
ErrorsOrderWitness ==
    /\ pc = "returned"
    /\ FailedHeader # 0
    /\ Len(errors) = 3
    /\ errors[1].URN # <<>>
    /\ errors[2].URN # <<>>
    /\ errors[1].URN # errors[2].URN
    /\ errors[3].URN = <<>>

\* Event k is a ResourceOpFailed or a diagnostic that is not an error.
Inert(k) ==
    \/ stream[k].kind = "ResOpFailed"
    \/ stream[k].kind = "Diagnostic" /\ stream[k].severity # "error"

\* C16: handling a ResourceOpFailed event or a diagnostic whose severity is
\* not "error" prints no line and leaves timing, dedupe, errors, outputs
\* and the spinner as they were.
InertEvents ==
    [][(Handling /\ Inert(pos))
          => UNCHANGED <<timing, dedupe, errors, outputs, spin, out>>]_vars

\* A ResourceOpFailed and a warning attributed to a resource, with a
\* message of three lines, have been handled and nothing was recorded or
\* printed.
InertWitness ==
    /\ pc = "loop"
    /\ \E k \in 1..(pos - 1) : stream[k].kind = "ResOpFailed"
    /\ \E k \in 1..(pos - 1) :
           /\ stream[k].kind = "Diagnostic"
           /\ stream[k].severity = "warning"
           /\ stream[k].urn # <<>>
    /\ errors = <<>>
    /\ out = <<>>

\* ------------------------------------------------------------ streams of ops
\* The ops of the two label tables, and one op that is in neither.
TableOps ==
    {"same", "create", "update", "delete", "create-replacement",
     "delete-replaced", "replace", "refresh"}

OtherOp == "read"

\* Streams with a ResourcePre and a ResourceOutputs for every op, for the
\* stack, and for a urn of three segments.
UniverseOps ==
    { SummaryEvent(1),
      ConcurrentUpdateEvent(1),
      StdOutEvent(<<"h", "i">>, 1),
      ResOpFailedEvent(UrnA, 1),
      DiagnosticEvent(UrnA, "error", MsgOne, 1),
      ResourcePreEvent(UrnA, StackType, "create", 1),
      ResourcePreEvent(UrnShort, BucketType, "update", 1),
      ResOutputsEvent(UrnShort, BucketType, "update", NoOutputs, 3),
      ResOutputsEvent(UrnA, StackType, "delete", NoOutputs, 3) }
    \cup {ResourcePreEvent(UrnA, BucketType, op, 1) :
             op \in TableOps \cup {OtherOp}}
    \cup {ResOutputsEvent(UrnA, BucketType, op, NoOutputs, 3) :
             op \in TableOps \cup {OtherOp}}

InitOps == InitWith(UniverseOps, {"deploy", "refresh"})

SpecOps == InitOps /\ [][Next]_vars

\* The label the table of ResourcePre gives to an op.
PreTable(op) ==
    CASE op = "same" -> Skipped
      [] op \in {"create", "create-replacement", "replace"} -> Creating
      [] op = "update" -> Updating
      [] op \in {"delete", "delete-replaced"} -> Deleting
      [] op = "refresh" -> Refreshing
      [] OTHER -> NoLabel

\* The label the table of ResourceOutputs gives to an op in a mode.
OutTable(op, m) ==
    CASE op \in {"create", "create-replacement", "replace"} -> Created
      [] op = "update" -> Updated
      [] op \in {"delete", "delete-replaced"} -> Deleted
      [] op = "same" /\ m = "refresh" -> Refreshed
      [] OTHER -> NoLabel

\* A status line with this urn and label is on the terminal.
LinePrinted(urn, label) ==
    \E i \in 1..Len(out) :
        out[i].kind = "status" /\ out[i].URN = urn /\ out[i].Label = label

\* The step printed exactly one line, a status line for the urn with the
\* label.
EmitsLine(urn, label) ==
    /\ Len(out') = Len(out) + 1
    /\ SubSeq(out', 1, Len(out)) = out
    /\ out'[Len(out')].kind = "status"
    /\ out'[Len(out')].URN = urn
    /\ out'[Len(out')].Label = label

\* C17: a ResourcePre of the stack prints nothing; any other ResourcePre
\* whose op is in the table and whose (urn, label) was not printed before
\* prints exactly one status line, with the label of the table and without
\* a duration.
PreClassification ==
    [][(Handling /\ stream[pos].kind = "ResourcePre")
          => LET e == stream[pos]
             IN /\ e.type = StackType => out' = out
                /\ (/\ e.type # StackType
                    /\ PreTable(e.op) # NoLabel
                    /\ ~LinePrinted(e.urn, PreTable(e.op)))
                       => /\ EmitsLine(e.urn, PreTable(e.op))
                          /\ ~out'[Len(out')].hasDuration]_vars

\* The time between event k and the latest ResourcePre for its urn rounds
\* to zero milliseconds.
RoundsToZero(k) ==
    /\ PresBefore(k) # {}
    /\ RoundNearest(ArrivalTime(k) - ArrivalTime(Latest(PresBefore(k)))) = 0

\* C18: a ResourceOutputs that is not a root output, whose op and mode are
\* in the table and whose (urn, label) was not printed before, prints
\* exactly one final status line with the label of the table, showing the
\* duration (unless it is zero); op same outside refresh mode prints
\* nothing.
OutClassification ==
    [][(Handling /\ stream[pos].kind = "ResOutputs" /\ ~RootNonDelete(pos))
          => LET e == stream[pos]
             IN /\ (e.op = "same" /\ mode # "refresh") => out' = out
                /\ (/\ OutTable(e.op, mode) # NoLabel
                    /\ ~LinePrinted(e.urn, OutTable(e.op, mode)))
                       => /\ EmitsLine(e.urn, OutTable(e.op, mode))
                          /\ \/ out'[Len(out')].hasDuration
                             \/ RoundsToZero(pos)]_vars

\* C19: outputs changes only in the step that handles a ResourceOutputs of
\* the stack with an op other than delete; every other step, whatever the
\* event, leaves it as it was.
OutputsFrame ==
    [][~(Handling /\ RootNonDelete(pos)) => outputs' = outputs]_vars

\* A ResourceOutputs of the stack with op delete and a ResourceOutputs of
\* another resource, both carrying maps other than the current outputs, have
\* been handled.
OutputsFrameWitness ==
    /\ \E k \in 1..(pos - 1) :
           /\ stream[k].kind = "ResOutputs"
           /\ stream[k].type = StackType
           /\ stream[k].op = "delete"
           /\ stream[k].outputs # outputs
    /\ \E k \in 1..(pos - 1) :
           /\ stream[k].kind = "ResOutputs"
           /\ stream[k].type # StackType
           /\ stream[k].outputs # outputs

\* ---------------------------------------------------------- runs under a mode
\* progress as a function of its two arguments: the state of a run of
\* progress(m, stream) is computed from the mode and the stream alone, so
\* that the runs of one stream under several modes can be compared.

\* The state after lines 34-49 and 105-111.
RunStart(m) ==
    [pos |-> 1, pc |-> "loop", result |-> "none",
     spin |-> SpinStart([SpinNew EXCEPT !.Suffix = ModeSuffix(m)]),
     dedupe |-> {}, timing |-> [u \in {} |-> ZeroTime], errors |-> <<>>,
     outputs |-> NoOutputs, out |-> <<>>, now |-> StartNow]

\* A line written in state st, the spinner being s.
RunLine(st, kind, label, urn, text, duration, msg, outs, s) ==
    [kind |-> kind, evt |-> st.pos, Label |-> label, URN |-> urn,
     text |-> text, hasDuration |-> (duration # 0), Duration |-> duration,
     Message |-> msg, outputs |-> outs, animating |-> Animating(s)]

\* printProgress (lines 75-103) and the continue that follows it.
RunPrint(st, p) ==
    LET dedupeKey == DedupeKey(p)
        off == SpinDisable(st.spin)
    IN IF dedupeKey \in st.dedupe
       THEN [st EXCEPT !.spin = off, !.pos = st.pos + 1]
       ELSE IF FormatURNPanics(p.URN)
       THEN [st EXCEPT !.dedupe = st.dedupe \cup {dedupeKey},
                       !.out = Append(st.out,
                           RunLine(st, "marker", p.Label, p.URN, <<>>, 0,
                                   <<>>, NoOutputs, off)),
                       !.spin = SpinStop(SpinEnable(off)),
                       !.pc = "panic"]
       ELSE [st EXCEPT !.dedupe = st.dedupe \cup {dedupeKey},
                       !.out = Append(st.out,
                           RunLine(st, "status", p.Label, p.URN,
                                   FormatURN(p.URN), p.Duration, p.Message,
                                   NoOutputs, off)),
                       !.spin = SpinEnable(off),
                       !.pos = st.pos + 1]

\* The body of the range loop (lines 114-329) for event e in mode m.
RunStep(st0, e, m) ==
    LET st == [st0 EXCEPT !.now = st0.now + e.dt]
        next == [st EXCEPT !.pos = st.pos + 1]
    IN IF e.kind = "Summary"
       THEN [next EXCEPT !.spin = [st.spin EXCEPT !.Suffix = "  Finalizing..."]]
       ELSE IF e.kind = "ConcurrentUpdate"
       THEN [next EXCEPT
                !.out = Append(st.out,
                    RunLine(st, "concurrent", NoLabel, <<>>, <<>>, 0, <<>>,
                            NoOutputs, SpinDisable(st.spin))),
                !.spin = SpinStop(SpinDisable(st.spin)),
                !.result = FALSE,
                !.pc = "returned"]
       ELSE IF e.kind = "StdOut"
       THEN [next EXCEPT
                !.out = Append(st.out,
                    RunLine(st, "stdout", NoLabel, <<>>, e.message, 0, <<>>,
                            NoOutputs, SpinDisable(st.spin))),
                !.spin = SpinEnable(SpinDisable(st.spin))]
       ELSE IF e.kind = "ResourcePre"
       THEN LET timed == [st EXCEPT !.timing =
                            [u \in DOMAIN st.timing \cup {e.urn} |->
                                IF u = e.urn THEN st.now ELSE st.timing[u]]]
            IN IF e.type = StackType \/ PreLabel(e.op) = NoLabel
               THEN [timed EXCEPT !.pos = st.pos + 1]
               ELSE RunPrint(timed, Progress(PreLabel(e.op), e.urn,
                                             e.op = "same", <<>>, 0))
       ELSE IF e.kind = "ResOutputs"
       THEN IF IsRootOutput(e)
            THEN [next EXCEPT !.outputs = AssignOutputs(st.outputs, e.outputs)]
            ELSE IF OutLabel(e.op, m) = NoLabel THEN next
            ELSE RunPrint(st,
                     Progress(OutLabel(e.op, m), e.urn, TRUE, <<>>,
                         DurationRound(
                             TimeSub(st.now,
                                     IF e.urn \in DOMAIN st.timing
                                     THEN st.timing[e.urn] ELSE ZeroTime),
                             Millisecond)))
       ELSE IF e.kind = "Diagnostic" /\ IsError(e.severity)
       THEN IF e.urn # <<>>
            THEN LET msg == ShortMessage(e.message)
                 IN RunPrint([st EXCEPT !.errors =
                                 AppendError(st.errors,
                                             ErrorStatus(msg, e.urn))],
                             Progress(ErrorLabel, e.urn, TRUE, msg, 0))
            ELSE LET outLines == TrimmedLines(Split(e.message, <<NL>>))
                 IN IF Actionable(outLines)
                    THEN [next EXCEPT !.errors =
                             AppendError(st.errors,
                                 ErrorStatus(Join(outLines, <<NL>>), <<>>))]
                    ELSE next
       ELSE next

RECURSIVE RunFailedLines(_, _)
\* Lines 352-358.
RunFailedLines(st, es) ==
    IF es = <<>> THEN <<>>
    ELSE LET status == Head(es)
         IN IF status.URN # <<>> /\ FormatURNPanics(status.URN) THEN <<>>
            ELSE <<RunLine(st, "failed-entry", NoLabel, status.URN,
                           (IF status.URN # <<>>
                            THEN FormatURN(status.URN) \o <<":", " ">>
                            ELSE <<>>) \o TrimSpace(status.Error),
                           0, <<>>, NoOutputs, SpinStop(st.spin))>>
                 \o RunFailedLines(st, Tail(es))

\* Lines 332-360.
RunFinish(st) ==
    LET stopped == SpinStop(st.spin)
    IN IF Verdict(st.errors)
       THEN [st EXCEPT
                !.spin = stopped,
                !.out = Append(st.out,
                    RunLine(st, "complete", NoLabel, <<>>, <<>>, 0, <<>>,
                            st.outputs, stopped)),
                !.result = TRUE,
                !.pc = "returned"]
       ELSE LET entries == RunFailedLines(st, st.errors)
            IN [st EXCEPT
                   !.spin = stopped,
                   !.out = Append(st.out,
                       RunLine(st, "failed", NoLabel, <<>>, <<>>, 0, <<>>,
                               NoOutputs, stopped)) \o entries,
                   !.result = IF Len(entries) = Len(st.errors)
                              THEN FALSE ELSE st.result,
                   !.pc = IF Len(entries) = Len(st.errors)
                          THEN "returned" ELSE "panic"]

RECURSIVE RunTo(_, _)
\* The state of progress(m, stream) when k events have been received, the
\* loop stopping at a return or a panic.
RunTo(m, k) ==
    IF k = 0 THEN RunStart(m)
    ELSE LET st == RunTo(m, k - 1)
         IN IF st.pc = "loop" THEN RunStep(st, stream[k], m) ELSE st

\* The state in which progress(m, stream) ends.
RunEnd(m) ==
    LET st == RunTo(m, Len(stream))
    IN IF st.pc = "loop" THEN RunFinish(st) ELSE st

\* The events of the streams on which the modes are compared.
UniverseModes ==
    { SummaryEvent(1),
      ConcurrentUpdateEvent(1),
      StdOutEvent(<<"h", "i">>, 1),
      ResOpFailedEvent(UrnA, 1),
      ResourcePreEvent(UrnA, BucketType, "create", 1),
      ResourcePreEvent(UrnA, BucketType, "same", 1),
      ResOutputsEvent(UrnA, BucketType, "create", NoOutputs, 4),
      ResOutputsEvent(UrnA, BucketType, "same", NoOutputs, 1),
      ResOutputsEvent(UrnShort, BucketType, "update", NoOutputs, 1),
      ResOutputsEvent(UrnA, StackType, "update", OutputsUrl, 1),
      DiagnosticEvent(UrnA, "error", MsgBoom, 1),
      DiagnosticEvent(<<>>, "error", MsgGlobal, 1) }

InitModes == InitWith(UniverseModes, ProgressModes)

SpecModes == InitModes /\ [][Next]_vars

\* The stream holds no ResourceOutputs whose op is same.
NoSameOutputs ==
    \A k \in 1..Len(stream) :
        ~(stream[k].kind = "ResOutputs" /\ stream[k].op = "same")

\* The state progress(m, stream) is in at the point the run has reached.
RunNow(m) == IF pc = "loop" THEN RunTo(m, pos - 1) ELSE RunEnd(m)

\* The spinner apart from its status text.
SpinSansSuffix(s) == [s EXCEPT !.Suffix = ""]

\* The run under mode m is, at this point, where the run under the mode of
\* this behaviour is: the same lines, errors, outputs and verdict, the same
\* bookkeeping, and a spinner that differs at most by the status text the
\* mode gave it at the start.
SameAsUnder(m) ==
    LET st == RunNow(m)
    IN /\ st.out = out
       /\ st.errors = errors
       /\ st.outputs = outputs
       /\ st.result = result
       /\ st.pc = pc
       /\ st.pos = pos
       /\ st.dedupe = dedupe
       /\ st.timing = timing
       /\ st.now = now
       /\ SpinSansSuffix(st.spin) = SpinSansSuffix(spin)
       /\ st.spin.Suffix # spin.Suffix =>
             /\ st.spin.Suffix = ModeSuffix(m)
             /\ spin.Suffix = ModeSuffix(mode)

\* C20: on a stream with no ResourceOutputs of op same, the run under any
\* mode among deploy, remove, cancel and refresh prints the same lines,
\* records the same errors and outputs and returns the same verdict as the
\* run under any other; the two differ only by the initial status text of
\* the indicator.
ModeIndependence ==
    (pc # "start" /\ NoSameOutputs) => \A m \in ProgressModes : SameAsUnder(m)

\* A finished run in refresh mode that printed a status line of a
\* ResourceOutputs and a final report, on a stream without op same.
ModeIndependenceWitness ==
    /\ pc = "returned"
    /\ mode = "refresh"
    /\ NoSameOutputs
    /\ pos > Len(stream)
    /\ \E i \in 1..Len(out) :
          /\ out[i].kind = "status"
          /\ stream[out[i].evt].kind = "ResOutputs"
    /\ \E i \in 1..Len(out) : out[i].kind \in {"complete", "failed"}

\* ------------------------------------------------------------ StdOut events
\* The StdOut lines written so far.
StdOutLines == {i \in 1..Len(out) : out[i].kind = "stdout"}

\* The StdOut events handled so far.
StdOutHandled == {k \in 1..(pos - 1) : stream[k].kind = "StdOut"}

\* C21: the step that handles a StdOut event appends one line holding the
\* text of the event as it is, written while the indicator is suspended,
\* leaves the indicator resumed, and changes none of timing, dedupe, errors
\* and outputs; whatever was printed before, so that a text delivered n
\* times is on the terminal n times.
StdOutVerbatim ==
    /\ [][(Handling /\ stream[pos].kind = "StdOut") =>
            /\ Len(out') = Len(out) + 1
            /\ SubSeq(out', 1, Len(out)) = out
            /\ out'[Len(out')].kind = "stdout"
            /\ out'[Len(out')].text = stream[pos].message
            /\ out'[Len(out')].evt = pos
            /\ ~out'[Len(out')].animating
            /\ Animating(spin')
            /\ UNCHANGED <<timing, dedupe, errors, outputs>>]_vars
    /\ [](pc = "loop" => Cardinality(StdOutLines) = Cardinality(StdOutHandled))

\* The same text was delivered three times and is printed three times.
StdOutWitness ==
    /\ Cardinality(StdOutLines) = 3
    /\ \A i, j \in StdOutLines : out[i].text = out[j].text

\* ------------------------------------------------------ indicator lifecycle
\* The lines of the final report.
ReportLines == {i \in 1..Len(out) : out[i].kind \in {"complete", "failed", "failed-entry"}}

\* C22: no event is consumed and nothing is written before the indicator
\* is started; when the first event is about to be consumed the indicator
\* runs with the status text of the mode; once progress has returned, at the
\* end of the stream or on a ConcurrentUpdate, the indicator is stopped; and
\* every line of the final report was written with the indicator stopped.
IndicatorLifecycle ==
    /\ pc = "start" => (pos = 1 /\ out = <<>> /\ ~spin.active)
    /\ (pc = "loop" /\ pos = 1) =>
          (Animating(spin) /\ spin.Suffix = ModeSuffix(mode))
    /\ pc = "returned" => ~spin.active
    /\ \A i \in ReportLines : ~out[i].animating

\* A cancel run that reached the end of its stream and wrote a Failed
\* report of one entry.
IndicatorWitness ==
    /\ pc = "returned"
    /\ mode = "cancel"
    /\ pos > Len(stream)
    /\ ~HasConcurrentUpdate
    /\ \E i \in ReportLines : out[i].kind = "failed-entry"

\* ------------------------------------------------------------ simple create
\* The events of the streams of the create scenario: a ResourceOutputs may
\* follow its ResourcePre by less than half a millisecond, by a little
\* less than one, by exactly one and by a little more than one.
UniverseCreate ==
    { SummaryEvent(1),
      ConcurrentUpdateEvent(1),
      StdOutEvent(<<"h", "i">>, 1),
      ResOpFailedEvent(UrnA, 1),
      ResourcePreEvent(UrnA, BucketType, "create", 1),
      ResourcePreEvent(UrnB, BucketType, "create", Millisecond),
      ResOutputsEvent(UrnA, BucketType, "create", NoOutputs, 1),
      ResOutputsEvent(UrnA, BucketType, "create", NoOutputs, Millisecond - 1),
      ResOutputsEvent(UrnA, BucketType, "create", NoOutputs, Millisecond),
      ResOutputsEvent(UrnB, BucketType, "create", NoOutputs, Millisecond + 1),
      DiagnosticEvent(UrnA, "error", MsgBoom, 1) }

InitCreate == InitWith(UniverseCreate, {"deploy", "remove"})

SpecCreate == InitCreate /\ [][Next]_vars

\* The stream is ResourcePre(A, create), ResourceOutputs(A, create) for a
\* urn A formatURN can format, neither event being of the stack, the second
\* arriving later than the first.
SimpleCreateStream ==
    /\ Len(stream) = 2
    /\ stream[1].kind = "ResourcePre"
    /\ stream[2].kind = "ResOutputs"
    /\ \A k \in 1..2 : stream[k].op = "create" /\ stream[k].type # StackType
    /\ stream[1].urn = stream[2].urn
    /\ ~FormatURNPanics(stream[1].urn)
    /\ stream[2].dt > 0

\* progress has come to its end, by a return or by a panic.
Ended == pc \in {"returned", "panic"}

\* The terminal holds a Creating line, a Created line and Complete, in that
\* order and nothing else, and progress returned true.
SimpleCreateLines ==
    /\ pc = "returned"
    /\ result = TRUE
    /\ Len(out) = 3
    /\ out[1].kind = "status" /\ out[1].Label = Creating
    /\ out[1].URN = stream[1].urn /\ ~out[1].hasDuration
    /\ out[2].kind = "status" /\ out[2].Label = Created
    /\ out[2].URN = stream[1].urn
    /\ out[3].kind = "complete"

\* C23 as stated: the scenario prints Creating, then Created with a
\* "(duration)" suffix, then Complete, and returns true.
SimpleCreateWithDuration ==
    (SimpleCreateStream /\ Ended) => (SimpleCreateLines /\ out[2].hasDuration)

\* C23: the scenario prints Creating, then Created, then Complete, and
\* returns true; the Created line carries a "(duration)" suffix, the
\* elapsed time rounded to whole milliseconds, exactly when the elapsed time
\* is at least half a millisecond.
SimpleCreateRounded ==
    (SimpleCreateStream /\ Ended) =>
        /\ SimpleCreateLines
        /\ out[2].hasDuration <=> 2 * stream[2].dt >= Millisecond
        /\ out[2].hasDuration => out[2].Duration = RoundNearest(stream[2].dt)

\* The scenario has run to its end and the Created line shows a duration
\* rounded up.
SimpleCreateWitness ==
    /\ SimpleCreateStream
    /\ Ended
    /\ out[2].hasDuration
    /\ out[2].Duration > stream[2].dt

\* --------------------------------------------------- the life of a timing entry
\* Event k is a ResourceOutputs that comes after a ResourcePre and an
\* earlier ResourceOutputs jo of the same urn, with no ResourcePre of that
\* urn between jo and k: the entry the ResourcePre made has been read once.
ReadBefore(k) ==
    \E jo \in 1..(k - 1) :
        /\ stream[jo].kind = "ResOutputs"
        /\ stream[jo].urn = stream[k].urn
        /\ stream[jo].type # StackType
        /\ PresBefore(jo) # {}
        /\ \A j \in PresBefore(k) : j < jo

\* C27: the final line of a ResourceOutputs whose urn had its timing entry
\* read by an earlier ResourceOutputs, with no ResourcePre of the urn in
\* between, shows no duration.
TimingInvalidated ==
    \A i \in OutputLines : ReadBefore(out[i].evt) => ShownDuration(out[i]) = 0

\* --------------------------------------------------- no report after an abort
\* C28: the step that handles a ConcurrentUpdate writes the one fixed
\* message and nothing else, and once it has been handled the last line on
\* the terminal is that message: no Complete or Failed report follows, so
\* no recorded error is listed and no output is shown.
NoReportAfterAbort ==
    /\ [][(Handling /\ stream[pos].kind = "ConcurrentUpdate") =>
            /\ Len(out') = Len(out) + 1
            /\ SubSeq(out', 1, Len(out)) = out
            /\ out'[Len(out')].kind = "concurrent"]_vars
    /\ [](Aborted =>
            /\ out # <<>>
            /\ out[Len(out)].kind = "concurrent"
            /\ ReportLines = {})

\* progress returned on a ConcurrentUpdate with an error recorded and
\* outputs of the stack received.
NoReportWitness ==
    /\ Aborted
    /\ pc = "returned"
    /\ errors # <<>>
    /\ outputs # NoOutputs

\* ================================================= DistributionInvalidation
\* providers/distribution-invalidation.ts.  A path is a sequence of
\* characters; an invalidation id is the number of the request CloudFront
\* answered with it.

FILE_LIMIT == 3000

WILDCARD_LIMIT == 15

\* The longest list of the small path lists.
MaxPaths == 3

\* String.prototype.trim
Trim(path) == TrimSpace(path)

\* Line 57 without the trim.
IsWildcardUntrimmed(path) == HasSuffix(path, <<"*">>)

\* Line 57: path.trim().endsWith("*")
IsWildcard(path) == HasSuffix(Trim(path), <<"*">>)

\* Lines 54-62: the file paths, in their order.
PathsFile(paths) == SelectSeq(paths, LAMBDA p : ~IsWildcard(p))

\* Lines 54-62: the wildcard paths, in their order.
PathsWildcard(paths) == SelectSeq(paths, LAMBDA p : IsWildcard(p))

\* Math.floor(n / d) in the place of Math.ceil
Floor(n, d) == n \div d

\* Math.ceil(n / d) for n >= 0 and d > 0
Ceil(n, d) == (n + d - 1) \div d

\* Math.max
Max(a, b) == IF a >= b THEN a ELSE b

\* Lines 64-67.
StepsCount(paths) ==
    Max(Ceil(Len(PathsFile(paths)), FILE_LIMIT),
        Ceil(Len(PathsWildcard(paths)), WILDCARD_LIMIT))

\* Array.prototype.slice(from, to) for 0 <= from <= to
Slice(s, from, to) == SubSeq(s, from + 1, IF to < Len(s) THEN to ELSE Len(s))

\* Lines 71-74: the paths of step i.
StepPaths(paths, i) ==
    Slice(PathsFile(paths), i * FILE_LIMIT, (i + 1) * FILE_LIMIT)
    \o Slice(PathsWildcard(paths), i * WILDCARD_LIMIT,
             (i + 1) * WILDCARD_LIMIT)

\* Lines 90-100: the CreateInvalidationCommand of a chunk, with the answer
\* it got: "id", "noid" or "error".
CreateInvalidation(distributionId, paths, answer) ==
    [DistributionId |-> distributionId, Quantity |-> Len(paths),
     Items |-> paths, answer |-> answer]

\* Lines 29-45 and 51-69: create or update calls handle, which calls
\* invalidate; the paths are split and the loop of line 70 is entered.
Handle ==
    /\ ppc = "ready"
    /\ ppc' = "invalidate"
    /\ step' = 0
    /\ UNCHANGED <<site, uploaded, args, inputs, requests, invalidationIds,
                   waits>>
    /\ UNCHANGED vars

\* Line 70 holds and the body of the loop is run.
Invalidating ==
    /\ ppc = "invalidate"
    /\ step < StepsCount(inputs.paths)

\* Lines 70-78 and 83-109: a chunk is sent and answered with an id.
InvalidateChunk ==
    /\ Invalidating
    /\ requests' = Append(requests,
           CreateInvalidation(inputs.distributionId,
                              StepPaths(inputs.paths, step), "id"))
    /\ invalidationIds' = Append(invalidationIds, Len(requests) + 1)
    /\ step' = step + 1
    /\ UNCHANGED <<site, uploaded, args, inputs, ppc, waits>>
    /\ UNCHANGED vars

\* Lines 102-106 without the throw: the chunk without an id is passed over
\* and the loop goes on.
InvalidateChunkNoIdGoesOn ==
    /\ Invalidating
    /\ requests' = Append(requests,
           CreateInvalidation(inputs.distributionId,
                              StepPaths(inputs.paths, step), "noid"))
    /\ step' = step + 1
    /\ UNCHANGED <<site, uploaded, args, inputs, ppc, invalidationIds,
                   waits>>
    /\ UNCHANGED vars

\* Lines 102-106: the answer carries no invalidation id; invalidateChunk
\* throws and create or update rejects.
InvalidateChunkNoId ==
    /\ Invalidating
    /\ requests' = Append(requests,
           CreateInvalidation(inputs.distributionId,
                              StepPaths(inputs.paths, step), "noid"))
    /\ ppc' = "rejected"
    /\ UNCHANGED <<site, uploaded, args, inputs, step, invalidationIds,
                   waits>>
    /\ UNCHANGED vars

\* Line 90: client.send rejects; create or update rejects.
InvalidateChunkThrows ==
    /\ Invalidating
    /\ requests' = Append(requests,
           CreateInvalidation(inputs.distributionId,
                              StepPaths(inputs.paths, step), "error"))
    /\ ppc' = "rejected"
    /\ UNCHANGED <<site, uploaded, args, inputs, step, invalidationIds,
                   waits>>
    /\ UNCHANGED vars

\* Lines 80 and 46-48: invalidate returns its ids; handle waits when
\* inputs.wait is set and returns otherwise.
InvalidateReturn ==
    /\ ppc = "invalidate"
    /\ step >= StepsCount(inputs.paths)
    /\ IF inputs.wait
       THEN ppc' = "wait" /\ step' = 0
       ELSE ppc' = "resolved" /\ step' = step
    /\ UNCHANGED <<site, uploaded, args, inputs, requests, invalidationIds,
                   waits>>
    /\ UNCHANGED vars

\* Line 118 holds and the body of the loop is run.
Waiting ==
    /\ ppc = "wait"
    /\ step < Len(invalidationIds)

\* Lines 120-129: the wait for one id and how it ended.
WaitUntilInvalidationCompleted(distributionId, id, completed) ==
    [DistributionId |-> distributionId, Id |-> id, completed |-> completed]

\* Lines 118-130: the invalidation completes within maxWaitTime.
WaitCompleted ==
    /\ Waiting
    /\ waits' = Append(waits,
           WaitUntilInvalidationCompleted(inputs.distributionId,
                                          invalidationIds[step + 1], TRUE))
    /\ step' = step + 1
    /\ UNCHANGED <<site, uploaded, args, inputs, ppc, requests,
                   invalidationIds>>
    /\ UNCHANGED vars

\* Lines 118-134 without the try: what the waiter throws leaves
\* waitForInvalidation and handle.
WaitFailedRejects ==
    /\ Waiting
    /\ waits' = Append(waits,
           WaitUntilInvalidationCompleted(inputs.distributionId,
                                          invalidationIds[step + 1], FALSE))
    /\ ppc' = "rejected"
    /\ UNCHANGED <<site, uploaded, args, inputs, step, requests,
                   invalidationIds>>
    /\ UNCHANGED vars

\* Lines 118-134: the waiter throws; the catch logs the error and the loop
\* goes on.
WaitFailed ==
    /\ Waiting
    /\ waits' = Append(waits,
           WaitUntilInvalidationCompleted(inputs.distributionId,
                                          invalidationIds[step + 1], FALSE))
    /\ step' = step + 1
    /\ UNCHANGED <<site, uploaded, args, inputs, ppc, requests,
                   invalidationIds>>
    /\ UNCHANGED vars

\* Lines 118 and 48: the loop of waitForInvalidation ends and handle
\* returns.
WaitReturn ==
    /\ ppc = "wait"
    /\ step >= Len(invalidationIds)
    /\ ppc' = "resolved"
    /\ UNCHANGED <<site, uploaded, args, inputs, step, requests,
                   invalidationIds, waits>>
    /\ UNCHANGED vars

\* The steps of the provider.
NextProvider ==
    \/ Handle
    \/ InvalidateChunk
    \/ InvalidateChunkNoId
    \/ InvalidateChunkThrows
    \/ InvalidateReturn
    \/ WaitCompleted
    \/ WaitFailed
    \/ WaitReturn

\* progress is not running.
NoProgress ==
    /\ mode = "deploy"
    /\ stream = <<>>
    /\ pos = 1
    /\ pc = "start"
    /\ result = "none"
    /\ spin = SpinNew
    /\ dedupe = {}
    /\ timing = [u \in {} |-> ZeroTime]
    /\ errors = <<>>
    /\ outputs = NoOutputs
    /\ out = <<>>
    /\ now = StartNow

RECURSIVE Bits(_)
\* k in binary, to tell the paths of a long list apart.
Bits(k) ==
    IF k = 0 THEN <<>>
    ELSE Bits(k \div 2) \o <<IF k % 2 = 0 THEN "0" ELSE "1">>

\* "/f<k>"
FilePath(k) == <<"/", "f">> \o Bits(k)

\* "/w<k>*"
WildcardPath(k) == <<"/", "w">> \o Bits(k) \o <<"*">>

\* n file paths followed by w wildcard paths.
FilesThenWildcards(n, w) ==
    [k \in 1..(n + w) |-> IF k <= n THEN FilePath(k) ELSE WildcardPath(k - n)]

\* n paths, wildcard paths and file paths taking turns.
Alternating(n) ==
    [k \in 1..n |-> IF k % 2 = 1 THEN WildcardPath(k) ELSE FilePath(k)]

\* Long path lists around the two limits.
LongPaths ==
    { FilesThenWildcards(FILE_LIMIT, 0),
      FilesThenWildcards(FILE_LIMIT + 1, 0),
      FilesThenWildcards(FILE_LIMIT, 1),
      FilesThenWildcards(FILE_LIMIT - WILDCARD_LIMIT, WILDCARD_LIMIT),
      FilesThenWildcards(FILE_LIMIT + 1, WILDCARD_LIMIT + 1),
      FilesThenWildcards(1, 2 * WILDCARD_LIMIT + 1),
      FilesThenWildcards(2 * FILE_LIMIT + 1, WILDCARD_LIMIT),
      Alternating(2 * WILDCARD_LIMIT),
      Alternating(2 * WILDCARD_LIMIT + 2) }

\* "/a", "/b*", " /c* " and "/*d": a file, a wildcard, a wildcard between
\* spaces and a file with a star inside.
SmallPath ==
    { <<"/", "a">>, <<"/", "b", "*">>, <<" ", "/", "c", "*", " ">>,
      <<"/", "*", "d">> }

\* The lists without repetition: the constructor of line 151 removes
\* repeated paths.
Distinct(s) == \A i, j \in 1..Len(s) : s[i] = s[j] => i = j

ShortPaths == {s \in SeqsUpTo(SmallPath, MaxPaths) : Distinct(s)}

\* The Inputs of a resource about to be created or updated.
ProviderInputs ==
    [distributionId : {"D"}, paths : LongPaths \cup ShortPaths,
     wait : BOOLEAN]

InitProvider ==
    /\ NoProgress
    /\ site = <<>>
    /\ uploaded = <<>>
    /\ args = <<>>
    /\ inputs \in ProviderInputs
    /\ ppc = "ready"
    /\ step = 0
    /\ requests = <<>>
    /\ invalidationIds = <<>>
    /\ waits = <<>>

SpecProvider == InitProvider /\ [][NextProvider]_cvars

\* ------------------------------------------------------ the size of a request
\* C29: every CreateInvalidation request sent carries at most FILE_LIMIT
\* paths, file paths and wildcard paths counted together.
RequestWithinFileLimit ==
    \A r \in 1..Len(requests) :
        /\ requests[r].Quantity = Len(requests[r].Items)
        /\ requests[r].Quantity <= FILE_LIMIT

\* --------------------------------------------------- the partition of the paths
\* The trimmed path ends with a star.
EndsWithStar(path) ==
    LET t == Trim(path) IN t # <<>> /\ t[Len(t)] = "*"

\* The paths of a list that end with a star, and the others, in their order.
Stars(paths) == SelectSeq(paths, EndsWithStar)

NoStars(paths) == SelectSeq(paths, LAMBDA p : ~EndsWithStar(p))

RECURSIVE SentStars(_)
\* The wildcard paths of the first n requests, request after request.
SentStars(n) ==
    IF n = 0 THEN <<>> ELSE SentStars(n - 1) \o Stars(requests[n].Items)

RECURSIVE SentNoStars(_)
\* The file paths of the first n requests, request after request.
SentNoStars(n) ==
    IF n = 0 THEN <<>> ELSE SentNoStars(n - 1) \o NoStars(requests[n].Items)

RECURSIVE SentCount(_)
\* The number of paths of the first n requests.
SentCount(n) ==
    IF n = 0 THEN 0 ELSE SentCount(n - 1) + Len(requests[n].Items)

\* invalidate has returned: every request was answered with an id.
Invalidated == ppc \in {"wait", "resolved"}

\* C30: once invalidate has returned, the requests hold as many paths as
\* inputs.paths; the paths whose trimmed form ends with a star, taken
\* request after request, are the wildcard paths of inputs.paths in their
\* order, and the other paths are its file paths in their order; each
\* request lists its file paths before its wildcard paths, at most
\* FILE_LIMIT of the first and WILDCARD_LIMIT of the second.
PathsPartitioned ==
    Invalidated =>
        /\ SentCount(Len(requests)) = Len(inputs.paths)
        /\ SentStars(Len(requests)) = Stars(inputs.paths)
        /\ SentNoStars(Len(requests)) = NoStars(inputs.paths)
        /\ \A r \in 1..Len(requests) :
              LET items == requests[r].Items
              IN /\ items = NoStars(items) \o Stars(items)
                 /\ Len(NoStars(items)) <= FILE_LIMIT
                 /\ Len(Stars(items)) <= WILDCARD_LIMIT

\* Two requests were sent for a list that starts with a wildcard path and
\* holds file paths too: the first request holds file paths and the second
\* wildcard paths.
PathsPartitionedWitness ==
    /\ ppc = "resolved"
    /\ Len(requests) = 2
    /\ EndsWithStar(inputs.paths[1])
    /\ Stars(requests[2].Items) # <<>>
    /\ NoStars(requests[1].Items) # <<>>

\* ================================================================= SsrSite
\* ssr-site.ts.  An optional value is a sequence: <<>> when it is undefined,
\* <<v>> when it is v.  invalidation.paths is a record: kind is "undefined",
\* "none", "all", "versioned" or "array", items the array.

Undefined == <<>>

Some(v) == <<v>>

RECURSIVE CollapseSlashes(_)
\* Runs of slashes become one slash.
CollapseSlashes(s) ==
    IF Len(s) < 2 THEN s
    ELSE IF s[1] = "/" /\ s[2] = "/" THEN CollapseSlashes(Tail(s))
    ELSE <<s[1]>> \o CollapseSlashes(Tail(s))

\* path.posix.join for segments without "." and "..": the non-empty
\* segments joined by slashes, normalised.
PosixJoin(segments) ==
    CollapseSlashes(Join(SelectSeq(segments, LAMBDA x : x # <<>>), <<"/">>))

\* Lines 1052-1054: the first origin of the plan whose type is "s3".
FirstS3(origins) ==
    LET found == SelectSeq(origins, LAMBDA o : o.type = "s3")
    IN IF found = <<>> THEN Undefined ELSE Some(Head(found))

\* Line 1056: the cached copy entries of an origin.
CachedS3Files(origin) == SelectSeq(origin.copy, LAMBDA file : file.cached)

RECURSIVE VersionedPaths(_)
\* Lines 1068-1073: one path for each entry that has a versionedSubDir.
VersionedPaths(files) ==
    IF files = <<>> THEN <<>>
    ELSE LET item == Head(files)
         IN (IF item.versionedSubDir = <<>> THEN <<>>
             ELSE <<PosixJoin(<<<<"/">>, item.to, item.versionedSubDir,
                                <<"*">>>>)>>)
            \o VersionedPaths(Tail(files))

\* invalidation?.paths
PathsOf(invalidation) ==
    IF invalidation = Undefined THEN [kind |-> "undefined", items |-> <<>>]
    ELSE invalidation[1].paths

\* Lines 1060-1076: the invalidation paths.
InvalidationPaths(invalidation, cachedS3Files) ==
    LET paths == PathsOf(invalidation)
    IN IF paths.kind = "none" THEN <<>>
       ELSE IF paths.kind = "all" \/ paths.kind = "undefined"
       THEN <<<<"/", "*">>>>
       ELSE IF paths.kind = "versioned" THEN VersionedPaths(cachedS3Files)
       ELSE paths.items

\* Lines 1047-1137: createDistributionInvalidation.  The arguments of the
\* new resource are distributionId, paths and version.
CreateDistributionInvalidation ==
    /\ ppc = "plan"
    /\ LET s3Origin == FirstS3(site[1].origins)
       IN IF s3Origin = Undefined
          THEN ppc' = "noresource" /\ args' = args
          ELSE LET cachedS3Files == CachedS3Files(s3Origin[1])
                   invalidationPaths ==
                       InvalidationPaths(site[1].invalidation, cachedS3Files)
               IN IF cachedS3Files = <<>> \/ invalidationPaths = <<>>
                  THEN ppc' = "noresource" /\ args' = args
                  ELSE /\ ppc' = "new"
                       /\ args' = Some([distributionId |-> "D",
                                        paths |-> Some(invalidationPaths),
                                        wait |-> Undefined])
    /\ UNCHANGED <<site, uploaded, inputs, step, requests, invalidationIds,
                   waits>>
    /\ UNCHANGED vars

RECURSIVE Unique(_)
\* [...new Set(paths)]: the first occurrence of each path, in order.
Unique(paths) ==
    IF paths = <<>> THEN <<>>
    ELSE LET front == Unique(SubSeq(paths, 1, Len(paths) - 1))
             last == paths[Len(paths)]
         IN IF \E i \in 1..Len(front) : front[i] = last THEN front
            ELSE Append(front, last)

\* distribution-invalidation.ts lines 139-160: the constructor of
\* DistributionInvalidation gives the provider its inputs.
Construct ==
    /\ ppc = "new"
    /\ inputs' =
          [distributionId |-> args[1].distributionId,
           paths |-> Unique(IF args[1].paths = Undefined
                            THEN <<<<"/", "*">>>> ELSE args[1].paths[1]),
           wait |-> IF args[1].wait = Undefined THEN FALSE
                    ELSE args[1].wait[1]]
    /\ ppc' = "ready"
    /\ UNCHANGED <<site, uploaded, args, step, requests, invalidationIds,
                   waits>>
    /\ UNCHANGED vars

\* The steps of the component and of its resource.
NextSite ==
    \/ CreateDistributionInvalidation
    \/ Construct
    \/ NextProvider

\* The copy entries of the plans: versioned at the root, unversioned under
\* "a", versioned under "a", and versioned but not cached.
CopyEntry ==
    { [from |-> "d", to |-> <<>>, cached |-> TRUE,
       versionedSubDir |-> <<"v">>],
      [from |-> "d", to |-> <<"a">>, cached |-> TRUE,
       versionedSubDir |-> <<>>],
      [from |-> "d", to |-> <<"a">>, cached |-> TRUE,
       versionedSubDir |-> <<"w">>],
      [from |-> "d", to |-> <<"a">>, cached |-> FALSE,
       versionedSubDir |-> <<"v">>] }

\* The longest copy list of the plans.
MaxCopy == 2

S3Origin == [type : {"s3"}, copy : SeqsUpTo(CopyEntry, MaxCopy)]

FunctionOrigin == [type |-> "function", copy |-> <<>>]

\* The first of two S3 origins: with nothing to copy, and with one cached
\* versioned entry.
FirstOfTwo ==
    { [type |-> "s3", copy |-> <<>>],
      [type |-> "s3",
       copy |-> <<[from |-> "d", to |-> <<>>, cached |-> TRUE,
                   versionedSubDir |-> <<"v">>]>>] }

\* The origins of the plans: none, a function, one S3 origin alone or
\* after a function, and two S3 origins.
PlanOrigins ==
    {<<>>, <<FunctionOrigin>>}
    \cup {<<o>> : o \in S3Origin}
    \cup {<<FunctionOrigin, o>> : o \in S3Origin}
    \cup {<<f, o>> : f \in FirstOfTwo, o \in S3Origin}

\* The values of invalidation.paths.
InvalidationPathsArg ==
    {[kind |-> k, items |-> <<>>] :
        k \in {"undefined", "none", "all", "versioned", "array"}}
    \cup {[kind |-> "array", items |-> <<<<"/", "a">>>>],
          [kind |-> "array",
           items |-> <<<<"/", "a">>, <<"/", "b", "*">>, <<"/", "a">>>>]}

\* The values of args.invalidation.
InvalidationArg ==
    {Undefined}
    \cup {Some(i) : i \in [wait : {Undefined, Some(TRUE), Some(FALSE)},
                           paths : InvalidationPathsArg]}

\* The arguments of a DistributionInvalidation made without an SsrSite.
DirectArgs ==
    [distributionId : {"D"},
     paths : {Undefined, Some(<<>>),
              Some(<<<<"/", "a">>, <<"/", "b", "*">>, <<"/", "a">>>>)},
     wait : {Undefined, Some(TRUE), Some(FALSE)}]

\* A build output without files.
NoFiles == [from \in {"d", "e"} |-> <<>>]

\* An SsrSite about to create its invalidation, or a
\* DistributionInvalidation about to be constructed on its own.
InitSite ==
    /\ NoProgress
    /\ uploaded = <<>>
    /\ inputs = <<>>
    /\ step = 0
    /\ requests = <<>>
    /\ invalidationIds = <<>>
    /\ waits = <<>>
    /\ \/ /\ ppc = "plan"
          /\ site \in {Some(s) : s \in [assets : {Undefined},
                                       invalidation : InvalidationArg,
                                       origins : PlanOrigins,
                                       files : {NoFiles}]}
          /\ args = Undefined
       \/ /\ ppc = "new"
          /\ site = Undefined
          /\ args \in {Some(a) : a \in DirectArgs}

SpecSite == InitSite /\ [][NextSite]_cvars

\* ------------------------------------------------------- invalidation.wait
\* The component is an SsrSite.
OfSite == site # Undefined

\* The SsrSite was given invalidation.wait = true.
WaitAsked ==
    /\ OfSite
    /\ site[1].invalidation # Undefined
    /\ site[1].invalidation[1].wait = Some(TRUE)

\* The ids waited on, in order.
WaitedIds == [k \in 1..Len(waits) |-> waits[k].Id]

\* C24: when the create or update of the DistributionInvalidation of an
\* SsrSite has completed, every invalidation it submitted has been waited on
\* if the site was given invalidation.wait = true, and no wait was made if
\* wait was false or unset.
SiteWaitHonoured ==
    (OfSite /\ ppc = "resolved") =>
        IF WaitAsked THEN WaitedIds = invalidationIds ELSE waits = <<>>

\* ------------------------------------------------------ invalidation.paths
RECURSIVE AllCachedCopies(_)
\* The cached copy entries of the S3 origins of a plan.
AllCachedCopies(origins) ==
    IF origins = <<>> THEN <<>>
    ELSE (IF Head(origins).type = "s3"
          THEN SelectSeq(Head(origins).copy, LAMBDA c : c.cached)
          ELSE <<>>)
         \o AllCachedCopies(Tail(origins))

\* "/<to>/<versionedSubDir>/*", "/<versionedSubDir>/*" when to is empty.
VersionedPattern(c) ==
    <<"/">> \o (IF c.to = <<>> THEN <<>> ELSE c.to \o <<"/">>)
    \o c.versionedSubDir \o <<"/", "*">>

\* The path list the setting of invalidation.paths asks for.
SelectedPaths ==
    LET paths == PathsOf(site[1].invalidation)
        versioned == SelectSeq(AllCachedCopies(site[1].origins),
                               LAMBDA c : c.versionedSubDir # <<>>)
    IN IF paths.kind = "none" THEN <<>>
       ELSE IF paths.kind \in {"all", "undefined"} THEN <<<<"/", "*">>>>
       ELSE IF paths.kind = "versioned"
       THEN [k \in 1..Len(versioned) |-> VersionedPattern(versioned[k])]
       ELSE paths.items

\* createDistributionInvalidation made a resource.
ResourceCreated == ppc \notin {"plan", "noresource"}

\* C25: once createDistributionInvalidation has run, the resource it made,
\* if any, has the path list of the setting: ["/*"] for "all" or unset, one
\* path for each cached S3 copy entry with a versionedSubDir for
\* "versioned", the array itself for an array; and it made none for "none",
\* for an empty list, and when no S3 origin has a cached copy entry.
PathSelection ==
    (OfSite /\ ppc # "plan") =>
        /\ ResourceCreated => args[1].paths = Some(SelectedPaths)
        /\ SelectedPaths = <<>> => ~ResourceCreated
        /\ AllCachedCopies(site[1].origins) = <<>> => ~ResourceCreated

\* ------------------------------------------------------------- uploadAssets
\* Lines 443-455 for the default TTLs, "1 day" and "365 days".
NonVersionedCacheControl ==
    "public,max-age=0,s-maxage=86400,stale-while-revalidate=8640"

VersionedCacheControl == "public,max-age=31536000,immutable"

\* a ?? b
OrElse(a, b) == IF a = Undefined THEN b ELSE a[1]

\* "**"
StarStar == <<"*", "*">>

\* A glob pattern against a file, for the patterns "**", "<dir>/**",
\* "**/*<suffix>" and a file name; dot files match.
GlobMatch(pattern, file) ==
    IF pattern = StarStar THEN TRUE
    ELSE IF HasSuffix(pattern, <<"/">> \o StarStar)
    THEN HasPrefix(file, SubSeq(pattern, 1, Len(pattern) - 2))
    ELSE IF HasPrefix(pattern, StarStar \o <<"/", "*">>)
    THEN HasSuffix(file, Drop(pattern, 4))
    ELSE pattern = file

\* globSync(files, { nodir, dot, ignore }): the files of the directory
\* that match a pattern of files and no pattern of ignore.
GlobSync(files, ignore, disk) ==
    SelectSeq(disk,
        LAMBDA f : /\ \E i \in 1..Len(files) : GlobMatch(files[i], f)
                   /\ ~\E j \in 1..Len(ignore) : GlobMatch(ignore[j], f))

\* Lines 462-486: the file options of a copy source.  A pattern or a list
\* of patterns is a list; no ignore is the empty list.
FileOptions(assets, versionedSubDir) ==
    <<[files |-> <<StarStar>>,
       ignore |-> IF versionedSubDir # <<>>
                  THEN <<PosixJoin(<<versionedSubDir, StarStar>>)>>
                  ELSE <<>>,
       cacheControl |->
           Some(OrElse(IF assets = Undefined THEN Undefined
                       ELSE assets[1].nonVersionedFilesCacheHeader,
                       NonVersionedCacheControl))]>>
    \o (IF versionedSubDir # <<>>
        THEN <<[files |-> <<PosixJoin(<<versionedSubDir, StarStar>>)>>,
                ignore |-> <<>>,
                cacheControl |->
                    Some(OrElse(IF assets = Undefined THEN Undefined
                                ELSE assets[1].versionedFilesCacheHeader,
                                VersionedCacheControl))]>>
        ELSE <<>>)
    \o OrElse(IF assets = Undefined THEN Undefined
              ELSE assets[1].fileOptions, <<>>)

\* Line 490 without the reverse.
ReverseNot(s) == s

\* Array.prototype.reverse
Reverse(s) == [k \in 1..Len(s) |-> s[Len(s) + 1 - k]]

\* Lines 498-511: the BucketObject of a file.
BucketObject(from, to, file, cacheControl) ==
    [source |-> <<from, file>>, key |-> PosixJoin(<<to, file>>),
     cacheControl |-> cacheControl]

RECURSIVE UploadFiles(_, _, _, _, _)
\* Lines 489-514: the objects of a copy source, the file options being
\* taken in the order given and filesUploaded holding the files already
\* uploaded.
UploadFiles(fileOptions, filesUploaded, disk, from, to) ==
    IF fileOptions = <<>> THEN <<>>
    ELSE LET fileOption == Head(fileOptions)
             files ==
                 SelectSeq(GlobSync(fileOption.files, fileOption.ignore, disk),
                     LAMBDA file :
                         ~\E i \in 1..Len(filesUploaded) :
                             filesUploaded[i] = file)
         IN [k \in 1..Len(files) |->
                BucketObject(from, to, files[k], fileOption.cacheControl)]
            \o UploadFiles(Tail(fileOptions), filesUploaded \o files, disk,
                           from, to)

RECURSIVE UploadCopies(_, _, _)
\* Lines 460-515: the objects of the copy sources of an origin.
UploadCopies(copy, assets, files) ==
    IF copy = <<>> THEN <<>>
    ELSE LET c == Head(copy)
         IN UploadFiles(Reverse(FileOptions(assets, c.versionedSubDir)),
                        <<>>, files[c.from], c.from, c.to)
            \o UploadCopies(Tail(copy), assets, files)

RECURSIVE UploadOrigins(_, _, _)
\* Lines 456-516: the objects of the S3 origins of the plan.
UploadOrigins(origins, assets, files) ==
    IF origins = <<>> THEN <<>>
    ELSE (IF Head(origins).type # "s3" THEN <<>>
          ELSE UploadCopies(Head(origins).copy, assets, files))
         \o UploadOrigins(Tail(origins), assets, files)

\* Lines 438-520: uploadAssets.
UploadAssets ==
    /\ ppc = "upload"
    /\ uploaded' = UploadOrigins(site[1].origins, site[1].assets,
                                 site[1].files)
    /\ ppc' = "plan"
    /\ UNCHANGED <<site, args, inputs, step, requests, invalidationIds,
                   waits>>
    /\ UNCHANGED vars

NextUpload == UploadAssets

\* The files of a build output: "i", "a.z", "v/x" and "v/y.z".
BuiltFile ==
    { <<"i">>, <<"a", ".", "z">>, <<"v", "/", "x">>,
      <<"v", "/", "y", ".", "z">> }

\* The most files of a directory and the most user file options.
MaxFiles == 2

MaxFileOptions == 2

\* The user file options: "**/*.z"; "**" ignoring "v/**"; and the list
\* ["v/**", "i"] without a cacheControl.
UserFileOption ==
    { [files |-> <<StarStar \o <<"/", "*", ".", "z">>>>, ignore |-> <<>>,
       cacheControl |-> Some("zip")],
      [files |-> <<StarStar>>, ignore |-> <<<<"v", "/">> \o StarStar>>,
       cacheControl |-> Some("all")],
      [files |-> <<<<"v", "/">> \o StarStar, <<"i">>>>, ignore |-> <<>>,
       cacheControl |-> Undefined] }

\* The values of args.assets.
AssetsArg ==
    {Undefined}
    \cup {Some(a) : a \in
            [nonVersionedFilesCacheHeader : {Undefined, Some("nv")},
             versionedFilesCacheHeader : {Undefined, Some("vh")},
             fileOptions :
                 {Undefined}
                 \cup {Some(l) : l \in SeqsUpTo(UserFileOption,
                                                MaxFileOptions)}]}

\* The plans whose assets are uploaded: no origin; one S3 origin copying
\* "d", with and without a versioned directory; a function and an S3 origin
\* copying "d" and "e".
UploadOriginsArg ==
    { <<>>,
      <<[type |-> "s3",
         copy |-> <<[from |-> "d", to |-> <<>>, cached |-> TRUE,
                     versionedSubDir |-> <<"v">>]>>]>>,
      <<[type |-> "s3",
         copy |-> <<[from |-> "d", to |-> <<"a">>, cached |-> TRUE,
                     versionedSubDir |-> <<>>]>>]>>,
      <<FunctionOrigin,
        [type |-> "s3",
         copy |-> <<[from |-> "d", to |-> <<>>, cached |-> TRUE,
                     versionedSubDir |-> <<"v">>],
                    [from |-> "e", to |-> <<"a">>, cached |-> FALSE,
                     versionedSubDir |-> <<>>]>>]>> }

\* The directories of the build output: "d" holds any files, "e" holds
\* "i" and "v/x".
BuiltFiles ==
    {[from \in {"d", "e"} |->
         IF from = "d" THEN l ELSE <<<<"i">>, <<"v", "/", "x">>>>] :
        l \in {s \in SeqsUpTo(BuiltFile, MaxFiles) : Distinct(s)}}

\* An SsrSite about to upload its assets.
InitUpload ==
    /\ NoProgress
    /\ site \in {Some(s) : s \in [assets : AssetsArg,
                                 invalidation : {Undefined},
                                 origins : UploadOriginsArg,
                                 files : BuiltFiles]}
    /\ uploaded = <<>>
    /\ args = Undefined
    /\ inputs = <<>>
    /\ ppc = "upload"
    /\ step = 0
    /\ requests = <<>>
    /\ invalidationIds = <<>>
    /\ waits = <<>>

SpecUpload == InitUpload /\ [][NextUpload]_cvars

RECURSIVE AllCopies(_)
\* The copy entries of the S3 origins of a plan.
AllCopies(origins) ==
    IF origins = <<>> THEN <<>>
    ELSE (IF Head(origins).type = "s3" THEN Head(origins).copy ELSE <<>>)
         \o AllCopies(Tail(origins))

\* File option k of a list selects the file: a pattern of its files
\* matches and none of its ignore does.
Selects(fileOption, file) ==
    /\ \E i \in 1..Len(fileOption.files) : GlobMatch(fileOption.files[i], file)
    /\ \A j \in 1..Len(fileOption.ignore) :
          ~GlobMatch(fileOption.ignore[j], file)

\* The last file option of the list of a copy source that selects the file,
\* 0 when none does.
LastSelecting(c, file) ==
    LET list == FileOptions(site[1].assets, c.versionedSubDir)
        S == {k \in 1..Len(list) : Selects(list[k], file)}
    IN IF S = {} THEN 0 ELSE CHOOSE k \in S : \A j \in S : j <= k

\* The objects uploaded for a file of a copy source.
ObjectsOf(c, file) ==
    {n \in 1..Len(uploaded) : uploaded[n].source = <<c.from, file>>}

\* C26: once uploadAssets has run, each file found in the directory of a
\* copy source has exactly one uploaded object, and the cacheControl of
\* that object is the one of the last entry of [unversioned default,
\* versioned default, ...user fileOptions] that matches the file; nothing
\* else is uploaded.
UploadLastMatchWins ==
    ppc = "plan" =>
        LET copies == AllCopies(site[1].origins)
        IN /\ \A i \in 1..Len(copies) :
                 LET c == copies[i]
                     disk == site[1].files[c.from]
                 IN \A f \in 1..Len(disk) :
                        /\ Cardinality(ObjectsOf(c, disk[f])) = 1
                        /\ LastSelecting(c, disk[f]) # 0
                        /\ \A n \in ObjectsOf(c, disk[f]) :
                              uploaded[n].cacheControl =
                                  FileOptions(site[1].assets,
                                              c.versionedSubDir)
                                      [LastSelecting(c, disk[f])].cacheControl
           /\ \A n \in 1..Len(uploaded) :
                 \E i \in 1..Len(copies) :
                     /\ uploaded[n].source[1] = copies[i].from
                     /\ \E f \in 1..Len(site[1].files[copies[i].from]) :
                           site[1].files[copies[i].from][f]
                               = uploaded[n].source[2]

\* A file of the versioned directory that the versioned default and the
\* user option "**/*.z" both match was uploaded with the cacheControl of
\* the user option.
UploadWitness ==
    /\ ppc = "plan"
    /\ \E n \in 1..Len(uploaded) :
          /\ uploaded[n].source = <<"d", <<"v", "/", "y", ".", "z">>>>
          /\ uploaded[n].cacheControl = Some("zip")
    /\ site[1].origins[1].type = "s3"
    /\ site[1].origins[1].copy[1].versionedSubDir = <<"v">>

\* ------------------------------------------------------ fail-stop submission
\* C31: the requests sent are the chunks 0, 1, 2, ... in that order, each
\* sent once the one before it was answered with an id, and a request once
\* sent stays in the list; a request answered without an id is the last one
\* sent: create or update has rejected, no wait was made, and from then on
\* nothing is sent and nothing is waited on.
FailStop ==
    /\ [](\A r \in 1..Len(requests) :
            /\ requests[r].Items = StepPaths(inputs.paths, r - 1)
            /\ r < Len(requests) => requests[r].answer = "id"
            /\ requests[r].answer = "noid" =>
                  (ppc = "rejected" /\ waits = <<>>))
    /\ [][/\ Len(requests') \in {Len(requests), Len(requests) + 1}
          /\ SubSeq(requests', 1, Len(requests)) = requests
          /\ ppc = "rejected" => UNCHANGED <<ppc, requests, waits,
                                             invalidationIds>>]_cvars

\* The second chunk of a resource that was to wait got no id: two requests
\* are sent, the first one holds its id, and no wait was made.
FailStopWitness ==
    /\ ppc = "rejected"
    /\ inputs.wait
    /\ Len(requests) = 2
    /\ requests[2].answer = "noid"
    /\ Len(invalidationIds) = 1
    /\ StepsCount(inputs.paths) > 2
    /\ waits = <<>>

\* --------------------------------------------------------- waiting for the ids
\* C32: a wait is made only when inputs.wait is set and every chunk has
\* been sent and answered with an id; the ids are waited on in the order
\* they were returned; a wait that fails neither stops the waits that
\* follow nor makes create or update reject, so that a resource that was to
\* wait has, when it resolves, waited on every id.
WaitsAfterSubmission ==
    /\ waits # <<>> =>
          /\ inputs.wait
          /\ Len(requests) = StepsCount(inputs.paths)
          /\ \A r \in 1..Len(requests) : requests[r].answer = "id"
    /\ Len(waits) <= Len(invalidationIds)
    /\ \A k \in 1..Len(waits) : waits[k].Id = invalidationIds[k]
    /\ ppc = "rejected" => waits = <<>>
    /\ ppc = "resolved" =>
          IF inputs.wait THEN WaitedIds = invalidationIds ELSE waits = <<>>

\* A resource resolved after two waits, the first of which failed.
WaitsWitness ==
    /\ ppc = "resolved"
    /\ Len(waits) = 2
    /\ ~waits[1].completed
    /\ waits[2].Id = invalidationIds[2]

\* ------------------------------------------------------ the number of requests
\* The least k with k * d >= n.
CeilingOf(n, d) == CHOOSE k \in 0..n : k * d >= n /\ \A j \in 0..(k - 1) : j * d < n

\* The larger of the two step counts of a path list.
RequestsNeeded(paths) ==
    LET f == CeilingOf(Len(NoStars(paths)), FILE_LIMIT)
        w == CeilingOf(Len(Stars(paths)), WILDCARD_LIMIT)
    IN IF f >= w THEN f ELSE w

\* C33: no request is ever sent without a path, and never more requests
\* than max(ceil(#file paths / FILE_LIMIT), ceil(#wildcard paths /
\* WILDCARD_LIMIT)); once invalidate has returned exactly that many were
\* sent and as many ids are returned, none of either for an empty list.
RequestCount ==
    /\ \A r \in 1..Len(requests) :
          requests[r].Items # <<>> /\ requests[r].Quantity > 0
    /\ Len(requests) <= RequestsNeeded(inputs.paths)
    /\ Invalidated =>
          /\ Len(requests) = RequestsNeeded(inputs.paths)
          /\ Len(invalidationIds) = Len(requests)
          /\ inputs.paths = <<>> => (requests = <<>> /\ invalidationIds = <<>>)

\* Three requests were sent for a list with a single file path: the
\* wildcard paths decide the number.
RequestCountWitness ==
    /\ Invalidated
    /\ Len(requests) = 3
    /\ Len(NoStars(inputs.paths)) = 1
    /\ Len(NoStars(requests[3].Items)) = 0

\* ------------------------------------------------------------ the dedupe key
\* A urn that ends with the first letters of a label: "s::p::t::aRe".
UrnARe == UrnA \o <<"R", "e">>

\* The events of the streams on which the keys are compared: two urns, one
\* a prefix of the other, with the labels Creating, Created and Error.
UniverseKeys ==
    { SummaryEvent(1),
      ConcurrentUpdateEvent(1),
      StdOutEvent(<<"h", "i">>, 1),
      ResOpFailedEvent(UrnA, 1),
      DiagnosticEvent(UrnA, "error", MsgBoom, 1) }
    \cup {ResourcePreEvent(u, BucketType, "create", 1) : u \in {UrnA, UrnARe}}
    \cup {ResOutputsEvent(u, BucketType, "create", NoOutputs, 1) :
            u \in {UrnA, UrnARe}}

InitKeys == InitWith(UniverseKeys, {"deploy"})

SpecKeys == InitKeys /\ [][Next]_vars

\* The labels progress gives to printProgress.
EmittedLabels ==
    {Skipped, Creating, Updating, Deleting, Refreshing, Refreshed, Created,
     Updated, Deleted, ErrorLabel}

\* The urns of the stream.
StreamUrns == {stream[k].urn : k \in 1..Len(stream)}

\* An event handled before the one being handled asked for a line of the
\* same urn and label.
AskedBefore ==
    \E j \in 1..(pos - 1) :
        /\ stream[j].urn = stream[pos].urn
        /\ EventLabel(stream[j]) = EventLabel(stream[pos])

\* C34: two pairs of a urn of the stream and a label progress emits have
\* the same dedupe key only when they are the same pair; so the event that
\* asks for a status line of a pair no earlier event asked for gets its
\* line written, whatever lines other pairs have had.  No label ends with
\* another label, which is why the keys of any two urns differ as well.
KeyInjective ==
    /\ [](\A u1 \in StreamUrns, u2 \in StreamUrns :
            \A l1 \in EmittedLabels, l2 \in EmittedLabels :
                DedupeKey(Progress(l1, u1, TRUE, <<>>, 0))
                    = DedupeKey(Progress(l2, u2, TRUE, <<>>, 0))
                => (u1 = u2 /\ l1 = l2))
    /\ [](\A l1 \in EmittedLabels, l2 \in EmittedLabels :
            HasSuffix(l1, l2) => l1 = l2)
    /\ [][(/\ Handling
           /\ EventLabel(stream[pos]) # NoLabel
           /\ ~AskedBefore)
          => (/\ Len(out') = Len(out) + 1
              /\ out'[Len(out')].URN = stream[pos].urn
              /\ out'[Len(out')].Label = EventLabel(stream[pos]))]_vars

\* Three status lines are on the terminal: two of one urn with two labels
\* and one of the other urn with one of those labels.
KeyWitness ==
    \E i, j, k \in 1..Len(out) :
        /\ out[i].kind = "status" /\ out[j].kind = "status"
        /\ out[k].kind = "status"
        /\ out[i].URN = out[j].URN /\ out[i].Label # out[j].Label
        /\ out[k].URN # out[i].URN /\ out[k].Label = out[i].Label

====
